---- MODULE Spec2Model ----
(***************************************************************************)
(* A state-machine model of the pooling simulator's decision/equilibrium   *)
(* engine: Simulation (src/logic/sim.py) and Stakeholder                   *)
(* (src/logic/stakeholder.py).                                             *)
(*                                                                         *)
(* Conventions.                                                            *)
(*  - Python's None is the record NoStrategy.                              *)
(*  - The reward/desirability helpers (logic/helper.py, logic/pool.py) are *)
(*    not part of the sources at hand.  Every utility value they return is *)
(*    an input of the deciding agent, drawn from env.min_utility ..        *)
(*    env.max_utility, so every behaviour of the real functions is one of  *)
(*    the behaviours of the model.  The potential profit of an agent is    *)
(*    an input too: env.profitable is the set of agents for which it can   *)
(*    be positive.                                                         *)
(*  - Stakeholder reads model.player_activation_order and                  *)
(*    model.get_players_dict(); Simulation names them                      *)
(*    agent_activation_order and get_agents_dict().  They are modelled as  *)
(*    the same attribute.                                                  *)
(*  - Stake is counted in whole units; the runs use stakes that the       *)
(*    values of k and pool counts up to four divide, so beta and those     *)
(*    pledges are exact; the pledge of five pools is rounded down.         *)
(*  - Of the activation orders, "Semisimultaneous" (logic/activations.py)  *)
(*    is not modelled.                                                     *)
(*  - An exception that escapes step() ends the run: pc = "crashed" and    *)
(*    error names the exception.                                           *)
(*  - Python lists are 0-based, TLA+ sequences 1-based: value[era] is      *)
(*    written list[era + 1].                                               *)
(***************************************************************************)
EXTENDS Integers, Sequences, FiniteSets, TLC

\* ------------------------------------------------------------------ bounds
NumAgents == 2
MaxIdSeq == 5

\* --------------------------------------------------------- program constants
revision_frequency == 10

Agents == 1..NumAgents

VARIABLES
    args,                    \* the args dictionary of Simulation.__init__ (fixed after construction)
    env,                     \* what the reward helpers can return in this run
    call,                    \* the single method call a unit run makes (NoCall in a simulation)
    returned,                \* what the call of a unit run of a helper has returned
    margin_search,           \* the locals of a running calculate_margin_binary_search
    steps,                   \* schedule.steps
    running,
    current_era,
    total_eras,
    k,
    beta,
    total_stake,
    perceived_active_stake,
    min_steps_to_keep_pool,
    pool_splitting,
    max_iterations,
    consecutive_idle_steps,
    current_step_idle,
    min_consecutive_idle_steps_for_convergence,
    pools,                   \* the global pool registry: pool id -> Pool
    id_seq,
    equilibrium_steps,
    pivot_steps,
    strategy,                \* Stakeholder.strategy, per agent
    new_strategy,            \* Stakeholder.new_strategy, per agent
    remaining_min_steps_to_keep_pool,
    pc,                      \* position of run_model / Simulation.step
    queue,                   \* agents the scheduler has still to call in this pass
    apc,                     \* position inside Stakeholder.step of the agent at the head of the queue
    current_utility,         \* local of update_strategy (line 58)
    possible_moves,          \* local of update_strategy
    max_utility_option,      \* local of update_strategy (line 89)
    options_left,            \* local of find_operator_moves: the pool counts still to try
    max_operator,            \* locals max_operator_utility and max_operator_strategy
    operator_strategy,       \* local of update_strategy: the loop variable of lines 79-83
    desirability_order,      \* the pools a delegation move may use, as line 427 sorts them
    id_seq_at_entry,         \* id_seq when update_strategy was entered
    error,                   \* the exception that ended the run, or "none"
    round_commits,           \* history: execute_strategy calls in the current round
    idle_streak,             \* history: completed rounds without a commit since the last round with one
    max_registered,          \* history: the highest pool id open_pool has registered so far
    last_commit,             \* history: what the last execute_strategy of this round did
    keep_rounds              \* history: per pool, the rounds left of those after its opening
                             \* round in which the cooldown of its opening should keep it

simVars == <<steps, running, current_era, k, beta, perceived_active_stake,
             min_steps_to_keep_pool, pool_splitting, max_iterations,
             consecutive_idle_steps, current_step_idle, equilibrium_steps, pivot_steps>>
constVars ==
    <<args, env, call, total_eras, total_stake, min_consecutive_idle_steps_for_convergence>>
unitVars == <<returned, margin_search>>
agentVars == <<strategy, new_strategy, remaining_min_steps_to_keep_pool>>
localVars == <<current_utility, possible_moves, max_utility_option, options_left, max_operator,
              operator_strategy, desirability_order, id_seq_at_entry>>
histVars == <<round_commits, idle_streak, max_registered, last_commit, keep_rounds>>
vars ==
    <<simVars, constVars, agentVars, localVars, histVars, pools, id_seq, pc, queue, apc, error,
      unitVars>>

\* ----------------------------------------------------------------- helpers
Max(a, b) == IF a >= b THEN a ELSE b
Min(a, b) == IF a <= b THEN a ELSE b

RECURSIVE SumOver(_, _)
SumOver(S, f) == IF S = {} THEN 0
                 ELSE LET x == CHOOSE y \in S : TRUE IN f[x] + SumOver(S \ {x}, f)

\* All orders in which the elements of S can be enumerated.
Orders(S) == {s \in [1..Cardinality(S) -> S] : \A i, j \in DOMAIN s : i # j => s[i] # s[j]}

NoStrategy == [is_none |-> TRUE]

\* The empty dict.
EmptyMap == [x \in {} |-> 0]

Restrict(f, S) == [x \in S |-> f[x]]

\* dict.pop(key)
Without(f, key) == Restrict(f, DOMAIN f \ {key})

\* History of one execute_strategy: the committing agent, the operations on the
\* registry in the order they were made, the pools popped from the registry (as they
\* were when close_pool was entered and when they were popped) and the allocation
\* deltas computed at lines 451-459.
NoCommit == [agent |-> 0, log |-> <<>>, removed |-> EmptyMap, changes |-> EmptyMap]

\* Strategy(): a delegator with no allocated stake and no pools.  owned_pools maps a
\* pool id to the (hypothetical) Pool of the strategy; of such a Pool the model keeps
\* the fields execute_strategy copies into the registry.
DefaultStrategy ==
    [is_pool_operator |-> FALSE, owned_pools |-> EmptyMap, stake_allocations |-> EmptyMap]

num_pools(s) == Cardinality(DOMAIN s.owned_pools)

owned_ids(s) == DOMAIN s.owned_pools

\* value[self.current_era] of an adjustable parameter given as the list `value`.
EraValue(value, era) == value[era + 1]

\* ---------------------------------------------------------------- __init__
\* total_eras: 1, or the length of the longest list given for a field.
TotalEras(a) ==
    Max(Max(Len(a.k), Len(a.min_steps_to_keep_pool)),
        Max(Len(a.pool_splitting), Len(a.max_iterations)))

\* initialize_agents returns the sum of the stake distribution; abstention_rate is 0.
TotalStake(a) == SumOver(DOMAIN a.stake, a.stake)

\* sim.py:122.  The first operand is the constructor's own parameter, not args[...].
MinConsecutiveIdleSteps(a) ==
    Max(a.min_steps_to_keep_pool_param + 1, a.steps_for_convergence)

\* Without input_from_file the args are the constructor's parameters, and line 122
\* adds 1 to the parameter: a list given for min_steps_to_keep_pool raises there.
\* The constructor also raises unless the total stake is positive.
ConstructorReturns(a) ==
    /\ ~a.input_from_file =>
          /\ Len(a.min_steps_to_keep_pool) = 1
          /\ a.min_steps_to_keep_pool_param = a.min_steps_to_keep_pool[1]
    /\ TotalStake(a) > 0

\* A simulation makes no isolated method call.
NoCall == [method |-> "none"]

\* No margin search is running.
NoSearch == [is_none |-> TRUE]

\* Nothing has been returned.
NoValue == [is_none |-> TRUE]

\* The state Simulation.__init__ leaves, but for the registry, the agents' strategies
\* and the control position.
Constructed(ArgSet, EnvSet) ==
    /\ args \in ArgSet
    /\ ConstructorReturns(args)
    /\ env \in EnvSet
    /\ current_era = 0
    /\ total_eras = TotalEras(args)
    /\ k = EraValue(args.k, 0)
    /\ min_steps_to_keep_pool = EraValue(args.min_steps_to_keep_pool, 0)
    /\ pool_splitting = EraValue(args.pool_splitting, 0)
    /\ max_iterations = EraValue(args.max_iterations, 0)
    /\ running = TRUE
    /\ steps = 0
    /\ total_stake = TotalStake(args)
    /\ perceived_active_stake = TotalStake(args)
    /\ beta = TotalStake(args) \div EraValue(args.k, 0)
    /\ consecutive_idle_steps = 0
    /\ current_step_idle = TRUE
    /\ min_consecutive_idle_steps_for_convergence = MinConsecutiveIdleSteps(args)
    /\ equilibrium_steps = <<>>
    /\ pivot_steps = <<>>
    /\ new_strategy = [a \in Agents |-> NoStrategy]
    /\ queue = <<>>
    /\ apc = "idle"
    /\ current_utility = 0
    /\ possible_moves = EmptyMap
    /\ max_utility_option = "none"
    /\ options_left = {}
    /\ max_operator = [utility |-> 0, strategy |-> NoStrategy]
    /\ operator_strategy = NoStrategy
    /\ desirability_order = <<>>
    /\ id_seq_at_entry = 0
    /\ error = "none"
    /\ round_commits = 0
    /\ idle_streak = 0
    /\ max_registered = 0
    /\ last_commit = NoCommit
    /\ keep_rounds = EmptyMap
    /\ returned = NoValue
    /\ margin_search = NoSearch

\* No pool id has been handed out and no agent has to keep a pool.
NothingOpened ==
    /\ id_seq = 0
    /\ remaining_min_steps_to_keep_pool = [a \in Agents |-> 0]

InitWith(ArgSet, EnvSet) ==
    /\ Constructed(ArgSet, EnvSet)
    /\ NothingOpened
    /\ call = NoCall
    /\ pools = EmptyMap
    /\ strategy = [a \in Agents |-> DefaultStrategy]
    /\ pc = "loop"

\* ------------------------------------------------- Simulation: belief revision, eras
CeilDiv(a, b) == (a + b - 1) \div b

\* reporters.get_active_stake_pools: the stake currently held by the pools.
ActiveStakePools(ps) == SumOver(DOMAIN ps, [p \in DOMAIN ps |-> ps[p].stake])

\* revise_beliefs: k becomes ceil(active_stake / beta); beta is left as it is.
RevisedK(ps, b) == CeilDiv(ActiveStakePools(ps), b)

\* adjust_params, for one adjustable parameter: the new era's value if the list has one.
Adjusted(value, era, current) == IF Len(value) > era THEN EraValue(value, era) ELSE current

\* Variant of AdjustedBeta that keeps the old beta when k is overridden.
KeptBeta(a, era, b, total) == b

\* adjust_params: beta is recomputed when (and only when) the list of k has a value
\* for the new era.
AdjustedBeta(a, era, b, total) ==
    IF Len(a.k) > era THEN total \div EraValue(a.k, era) ELSE b

ChangeOccured(a, era) ==
    \/ Len(a.k) > era
    \/ Len(a.min_steps_to_keep_pool) > era
    \/ Len(a.pool_splitting) > era
    \/ Len(a.max_iterations) > era

\* Variants of has_converged that are off by one round, early and late.
has_converged_early(idle_steps) == idle_steps + 1 >= min_consecutive_idle_steps_for_convergence

has_converged_late(idle_steps) == idle_steps > min_consecutive_idle_steps_for_convergence

has_converged(idle_steps) == idle_steps >= min_consecutive_idle_steps_for_convergence

\* Variant of eras_remain that also leaves the last era.
eras_always_remain(era, total) == era < total

\* sim.py:209: the test that sends a converged run into the next era.
eras_remain(era, total) == era < total - 1

\* Variant in which no scheduler stages the moves.
never_staged == FALSE

Simultaneous == args.agent_activation_order = "Simultaneous"

\* The order in which the scheduler calls the agents in one pass.
ScheduleOrders ==
    IF args.agent_activation_order = "Random" THEN Orders(Agents)
    ELSE {[i \in 1..NumAgents |-> i]}

\* ------------------------------------------------------------ run_model, step
\* run_model's loop test fails: run_model returns.
RunModelExit ==
    /\ pc = "loop"
    /\ ~(steps <= max_iterations /\ running)
    /\ pc' = "done"
    /\ UNCHANGED <<simVars, constVars, unitVars, agentVars, localVars, histVars, pools, id_seq, queue, apc,
                   error>>

\* step() at the iteration cap: wrap_up_execution and return, no agent is activated.
StepCap ==
    /\ pc = "loop"
    /\ steps <= max_iterations /\ running
    /\ steps >= max_iterations
    /\ running' = FALSE
    /\ UNCHANGED <<steps, current_era, k, beta, perceived_active_stake,
                   min_steps_to_keep_pool, pool_splitting, max_iterations,
                   consecutive_idle_steps, current_step_idle, equilibrium_steps, pivot_steps>>
    /\ UNCHANGED <<constVars, unitVars, agentVars, localVars, histVars, pools, id_seq, pc, queue, apc,
                   error>>

\* step() below the cap, up to the call of schedule.step().
StepActivate ==
    /\ pc = "loop"
    /\ steps <= max_iterations /\ running
    /\ steps < max_iterations
    /\ IF steps % revision_frequency = 0 /\ steps > 0
       THEN /\ perceived_active_stake' = ActiveStakePools(pools)
            /\ k' = RevisedK(pools, beta)
       ELSE UNCHANGED <<perceived_active_stake, k>>
    /\ queue' \in ScheduleOrders
    /\ pc' = "step"
    /\ UNCHANGED <<steps, running, current_era, beta,
                   min_steps_to_keep_pool, pool_splitting, max_iterations,
                   consecutive_idle_steps, current_step_idle, equilibrium_steps, pivot_steps>>
    /\ UNCHANGED <<constVars, unitVars, agentVars, localVars, histVars, pools, id_seq, apc, error>>

\* History: a round has ended.  The opening round of a pool does not count; each later
\* round uses up one of the rounds the pool should be kept.
after_round(keep) ==
    [p \in DOMAIN keep |->
        IF keep[p].opened_now THEN [keep[p] EXCEPT !.opened_now = FALSE]
        ELSE [keep[p] EXCEPT !.rounds = Max(@ - 1, 0)]]

\* step() after schedule.step() returned (which counted the step): idle accounting,
\* convergence, era transition or wrap-up.
StepEnd ==
    /\ pc = "end"
    /\ steps' = steps + 1
    /\ LET current_step == steps
           idle_steps == consecutive_idle_steps + 1
           era == current_era + 1
       IN  IF current_step_idle
           THEN IF has_converged(idle_steps)
                THEN /\ consecutive_idle_steps' = idle_steps
                     /\ equilibrium_steps' = Append(equilibrium_steps,
                            current_step - min_consecutive_idle_steps_for_convergence + 1)
                     /\ IF eras_remain(current_era, total_eras)
                        THEN /\ current_era' = era
                             /\ k' = Adjusted(args.k, era, k)
                             /\ beta' = AdjustedBeta(args, era, beta, total_stake)
                             /\ min_steps_to_keep_pool' =
                                    Adjusted(args.min_steps_to_keep_pool, era, min_steps_to_keep_pool)
                             /\ pool_splitting' = Adjusted(args.pool_splitting, era, pool_splitting)
                             /\ max_iterations' = Adjusted(args.max_iterations, era, max_iterations)
                             /\ pivot_steps' = IF ChangeOccured(args, era)
                                               THEN Append(pivot_steps, steps + 1)
                                               ELSE pivot_steps
                             /\ UNCHANGED running
                        ELSE /\ running' = FALSE
                             /\ UNCHANGED <<current_era, k, beta, min_steps_to_keep_pool,
                                            pool_splitting, max_iterations, pivot_steps>>
                     /\ current_step_idle' = TRUE
                ELSE /\ consecutive_idle_steps' = idle_steps
                     /\ current_step_idle' = TRUE
                     /\ UNCHANGED <<running, current_era, k, beta, min_steps_to_keep_pool,
                                    pool_splitting, max_iterations, equilibrium_steps, pivot_steps>>
           ELSE /\ consecutive_idle_steps' = 0
                /\ current_step_idle' = TRUE
                /\ UNCHANGED <<running, current_era, k, beta, min_steps_to_keep_pool,
                               pool_splitting, max_iterations, equilibrium_steps, pivot_steps>>
    /\ idle_streak' = IF round_commits = 0 THEN idle_streak + 1 ELSE 0
    /\ round_commits' = 0
    /\ pc' = "loop"
    /\ last_commit' = NoCommit
    /\ keep_rounds' = after_round(keep_rounds)
    /\ UNCHANGED <<perceived_active_stake, constVars, unitVars, agentVars, localVars, max_registered,
                   pools, id_seq, queue, apc, error>>

\* ------------------------------------------------------------------- Pool
\* Pool(pool_id, cost, pledge, owner, ..., is_private): a pool starts with its pledge
\* as its stake and with no delegators.
NewPool(owner, pledge, is_private) ==
    [owner |-> owner, pledge |-> pledge, stake |-> pledge, is_private |-> is_private,
     delegators |-> EmptyMap]

delegated(pool, delegator_id) ==
    IF delegator_id \in DOMAIN pool.delegators THEN pool.delegators[delegator_id] ELSE 0

\* Pool.update_delegation fails when the delegator's stake in the pool would go negative.
update_delegation_fails(pool, stake, delegator_id) == delegated(pool, delegator_id) + stake < 0

\* Pool.update_delegation: the pool's stake and the delegator's entry change by `stake`;
\* an entry that reaches zero is removed.
update_delegation(pool, stake, delegator_id) ==
    LET amount == delegated(pool, delegator_id) + stake
    IN  [pool EXCEPT !.stake = @ + stake,
                     !.delegators = IF amount = 0 THEN Without(@, delegator_id)
                                    ELSE (delegator_id :> amount) @@ @]

\* ------------------------------------------------ Stakeholder: candidate moves
\* Values of the reward helpers in this run.
Utilities == env.min_utility..env.max_utility

\* calculate_delegator_utility returns max(0, u).
DelegatorUtilities == 0..env.max_utility

positive_allocations(s) == {p \in DOMAIN s.stake_allocations : s.stake_allocations[p] > 0}

\* calculate_utility(strategy): the operator part is any value of the helpers, the
\* delegation part a sum of values max(0, u) over the positive allocations.
StrategyUtilities(s) ==
    IF s.is_pool_operator THEN Utilities
    ELSE IF positive_allocations(s) # {} THEN DelegatorUtilities
    ELSE {0}

\* Variant of calculate_utility that skips the pools it does not find.
skips_missing_pool(s) == FALSE

\* calculate_utility raises PoolNotFoundError for a positive allocation to a pool that
\* is not in the registry.
allocates_to_missing_pool(s) == \E p \in positive_allocations(s) : p \notin DOMAIN pools

\* Variant of current_utility_with_inertia without the thresholds.
current_utility_without_inertia(utility) == utility

current_utility_with_inertia(utility) ==
    Max((1 + args.relative_utility_threshold) * utility,
        utility + args.absolute_utility_threshold)

\* Variant of calculate_pledges that does not cap the pledge at beta.
calculate_pledges_uncapped(a, n) == args.stake[a] \div n

\* Line 215: the pledge of each of the n pools.  Amounts are integers; a pledge that
\* is not a whole number is rounded down.
calculate_pledges(a, n) == Min(args.stake[a] \div n, beta)

\* Variant of num_pools_options that keeps the single pool during the cooldown.
num_pools_options_with_one(a) ==
    LET current_num_pools == num_pools(strategy[a])
    IN  IF ~pool_splitting THEN {1}
        ELSE ({1} \cup (IF current_num_pools > 0 THEN {current_num_pools} ELSE {}))
             \cup (IF current_num_pools > 1 /\ remaining_min_steps_to_keep_pool[a] = 0
                   THEN {current_num_pools - 1} ELSE {})
             \cup {current_num_pools + 1}

\* find_operator_moves: the pool counts an agent tries.
num_pools_options(a) ==
    LET current_num_pools == num_pools(strategy[a])
    IN  IF ~pool_splitting THEN {1}
        ELSE (({1} \cup (IF current_num_pools > 0 THEN {current_num_pools} ELSE {}))
                \ (IF current_num_pools > 1 /\ remaining_min_steps_to_keep_pool[a] > 0
                   THEN {1} ELSE {}))
             \cup (IF current_num_pools > 1 /\ remaining_min_steps_to_keep_pool[a] = 0
                   THEN {current_num_pools - 1} ELSE {})
             \cup {current_num_pools + 1}

\* determine_current_pools: the owned pools left after the worst ranked ones are
\* dropped; the ranks come from the desirability helper.
determine_current_pools(a, n) ==
    {kept \in SUBSET owned_ids(strategy[a]) :
        Cardinality(kept) = Min(n, num_pools(strategy[a]))}

\* Lines 407-424: the pools somebody else owns and that are not private.
delegation_targets(a) == {p \in DOMAIN pools : pools[p].owner # a /\ ~pools[p].is_private}

\* Lines 409-411: the stake of pool p once the agent's own delegation is taken out.
stake_without(a, p) ==
    pools[p].stake - (IF p \in positive_allocations(strategy[a])
                      THEN strategy[a].stake_allocations[p] ELSE 0)

\* Line 411 fails when the registry holds less of the agent's stake than its strategy.
removal_fails(a) ==
    \E p \in positive_allocations(strategy[a]) :
        p \in DOMAIN pools
        /\ update_delegation_fails(pools[p], -strategy[a].stake_allocations[p], a)

\* Variant of allocate_in_order that gives the whole stake to the first pool.
allocate_all_to_first(a, order, i, stake_to_delegate) ==
    IF i > Len(order) \/ stake_to_delegate = 0 THEN EmptyMap
    ELSE order[i] :> stake_to_delegate

\* Lines 427-436: walk the pools in the sorted order and fill each up to saturation.
RECURSIVE allocate_in_order(_, _, _, _)
allocate_in_order(a, order, i, stake_to_delegate) ==
    IF i > Len(order) \/ stake_to_delegate = 0 THEN EmptyMap
    ELSE LET stake == stake_without(a, order[i])
             allocation == Min(stake_to_delegate, beta - stake)
         IN  IF stake < beta /\ allocation > 0
             THEN (order[i] :> allocation)
                    @@ allocate_in_order(a, order, i + 1, stake_to_delegate - allocation)
             ELSE allocate_in_order(a, order, i + 1, stake_to_delegate)

\* Variant of find_delegation_move_desirability that caps the allocation at beta
\* without regard to the stake the pool already holds.
find_delegation_move_unsaturated(a, stake_to_delegate, order) ==
    [is_pool_operator |-> FALSE, owned_pools |-> EmptyMap,
     stake_allocations |->
         IF order = <<>> \/ stake_to_delegate = 0 THEN EmptyMap
         ELSE order[1] :> Min(stake_to_delegate, beta)]

find_delegation_move_desirability(a, stake_to_delegate, order) ==
    [is_pool_operator |-> FALSE, owned_pools |-> EmptyMap,
     stake_allocations |-> allocate_in_order(a, order, 1, stake_to_delegate)]

\* Variant of find_delegation_move_for_operator that delegates the whole stake, pledged
\* or not.
delegate_pledged_stake(a, pledge, n, order) ==
    find_delegation_move_desirability(a, args.stake[a], order).stake_allocations

find_delegation_move_for_operator(a, pledge, n, order) ==
    LET remaining_stake == args.stake[a] - n * pledge
    IN  IF remaining_stake > 0
        THEN find_delegation_move_desirability(a, remaining_stake, order).stake_allocations
        ELSE EmptyMap

\* find_operator_move: the kept pools get the new pledge, the missing ones are created
\* under ids taken from the sequence.  Returns the strategy and the advanced sequence.
find_operator_move(a, n, kept, seq, order) ==
    LET pledge == calculate_pledges(a, n)
        created == (seq + 1)..(seq + n - Cardinality(kept))
        pool == [pledge |-> pledge, is_private |-> pledge >= beta]
    IN  [strategy |-> [is_pool_operator |-> TRUE,
                       owned_pools |-> [p \in kept \cup created |-> pool],
                       stake_allocations |->
                           find_delegation_move_for_operator(a, pledge, n, order)],
         id_seq |-> seq + n - Cardinality(kept)]

\* ----------------------------------------------------------- update_strategy
Deciding(a) == pc = "step" /\ queue # <<>> /\ Head(queue) = a

\* The values hlp.calculate_potential_profit (line 187) can return for agent a: agents
\* outside env.profitable have no positive potential profit at any saturation point.
PotentialProfits(a) == IF a \in env.profitable THEN -1..1 ELSE -1..0

\* Variant of has_potential_for_pool that does not look at the potential profit.
has_potential_whatever_profit(potential_profit, undercuts) ==
    Cardinality(DOMAIN pools) * beta < total_stake \/ undercuts

\* Lines 183-202.  `undercuts` stands for line 201-202's any(...): some pool of the
\* registry is less desirable than the potential profit.
has_potential_for_pool(potential_profit, undercuts) ==
    IF Cardinality(DOMAIN pools) * beta < total_stake
    THEN potential_profit > 0
    ELSE potential_profit > 0 /\ undercuts

\* update_strategy, lines 58-76: the current utility, the delegation candidate and the
\* pool counts to try.  An exception of calculate_utility or of line 411 ends the run.
BeginUpdate(a) ==
    /\ Deciding(a)
    /\ apc = "idle"
    /\ IF allocates_to_missing_pool(strategy[a]) \/ removal_fails(a)
       THEN /\ error' = IF allocates_to_missing_pool(strategy[a])
                        THEN "PoolNotFoundError" ELSE "ValueError"
            /\ pc' = "crashed"
            /\ UNCHANGED <<simVars, constVars, unitVars, agentVars, localVars, histVars, pools, id_seq,
                           queue, apc>>
       ELSE /\ \E utility \in StrategyUtilities(strategy[a]),
                  order \in Orders(delegation_targets(a)),
                  potential_profit \in PotentialProfits(a),
                  undercuts \in BOOLEAN :
                 LET delegator_strategy ==
                         find_delegation_move_desirability(a, args.stake[a], order)
                     considers_pool ==
                         \/ strategy[a].is_pool_operator
                         \/ has_potential_for_pool(potential_profit, undercuts)
                     current == "current" :>
                         [utility |-> current_utility_with_inertia(utility),
                          strategy |-> strategy[a]]
                 IN  /\ \E delegator_utility \in StrategyUtilities(delegator_strategy) :
                            possible_moves' =
                               IF remaining_min_steps_to_keep_pool[a] = 0
                               THEN current @@ ("delegator" :>
                                        [utility |-> delegator_utility,
                                         strategy |-> delegator_strategy])
                               ELSE current
                     /\ current_utility' = utility
                     /\ desirability_order' = order
                     /\ options_left' = IF considers_pool THEN num_pools_options(a) ELSE {}
                     /\ apc' = IF considers_pool THEN "operator_moves" ELSE "moves"
            /\ max_operator' = [utility |-> 0, strategy |-> NoStrategy]
            /\ operator_strategy' = NoStrategy
            /\ max_utility_option' = "none"
            /\ id_seq_at_entry' = id_seq
            /\ UNCHANGED <<simVars, constVars, unitVars, agentVars, histVars, pools, id_seq, pc, queue,
                           error>>

\* One iteration of the loops of find_operator_moves (line 350) and update_strategy
\* (line 79), which visit the pool counts in the set's iteration order: build the
\* candidate with n pools, take its utility, keep it if it beats the best so far.
\* After the last candidate line 84 records the operator move.
OperatorMove(a) ==
    /\ Deciding(a)
    /\ apc = "operator_moves"
    /\ \E n \in options_left, operator_utility \in Utilities :
         \E kept \in determine_current_pools(a, n) :
            LET move == find_operator_move(a, n, kept, id_seq, desirability_order)
                best == IF operator_utility > max_operator.utility
                        THEN [utility |-> operator_utility, strategy |-> move.strategy]
                        ELSE max_operator
            IN  /\ move.id_seq <= MaxIdSeq
                /\ id_seq' = move.id_seq
                /\ operator_strategy' = move.strategy
                /\ max_operator' = best
                /\ options_left' = options_left \ {n}
                /\ IF options_left = {n}
                   THEN /\ possible_moves' = possible_moves @@ ("operator" :> best)
                        /\ apc' = "moves"
                   ELSE UNCHANGED <<possible_moves, apc>>
    /\ UNCHANGED <<simVars, constVars, unitVars, agentVars, histVars, pools, pc, queue, error,
                   current_utility, max_utility_option, desirability_order, id_seq_at_entry>>

\* The insertion order of possible_moves.
KeyOrder == <<"current", "delegator", "operator">>

\* Variant of first_max_key that resolves ties towards the last key.
last_max_key(moves) ==
    LET present == {i \in 1..3 : KeyOrder[i] \in DOMAIN moves}
        best == {i \in present : \A j \in present : moves[KeyOrder[j]].utility
                                                      <= moves[KeyOrder[i]].utility}
    IN  KeyOrder[CHOOSE i \in best : \A j \in best : j <= i]

\* max(possible_moves, key=utility): the first key, in insertion order, of maximal utility.
first_max_key(moves) ==
    LET present == {i \in 1..3 : KeyOrder[i] \in DOMAIN moves}
        best == {i \in present : \A j \in present : moves[KeyOrder[j]].utility
                                                      <= moves[KeyOrder[i]].utility}
    IN  KeyOrder[CHOOSE i \in best : \A j \in best : i <= j]

\* Variant of rewind_step that hands the ids back even when the operator move is chosen.
rewind_always(a, moves, option, last) ==
    IF "operator" \in DOMAIN moves
    THEN Cardinality(owned_ids(last) \ owned_ids(strategy[a]))
    ELSE 0

\* Lines 92-96: the number of ids handed back.  `last` is the loop variable
\* operator_strategy as the loop of line 79 left it.
rewind_step(a, moves, option, last) ==
    IF "operator" \in DOMAIN moves /\ option # "operator"
    THEN Cardinality(owned_ids(last) \ owned_ids(strategy[a]))
    ELSE 0

\* update_strategy, lines 89-98: pick the move, hand back ids, stage the strategy.
SelectMove(a) ==
    /\ Deciding(a)
    /\ apc = "moves"
    /\ LET option == first_max_key(possible_moves)
       IN  /\ max_utility_option' = option
           /\ id_seq' = id_seq - rewind_step(a, possible_moves, option, operator_strategy)
           /\ new_strategy' = [new_strategy EXCEPT ![a] =
                                  IF option = "current" THEN NoStrategy
                                  ELSE possible_moves[option].strategy]
    /\ apc' = "selected"
    /\ UNCHANGED <<simVars, constVars, unitVars, strategy, remaining_min_steps_to_keep_pool, histVars,
                   pools, pc, queue, error, current_utility, possible_moves, options_left,
                   max_operator, operator_strategy, desirability_order, id_seq_at_entry>>

\* ---------------------------------------------------------- execute_strategy
\* The objects execute_strategy touches: the registry, every agent's strategy and
\* staged strategy, and the exception raised so far.
World == [pools |-> pools, strategy |-> strategy, new_strategy |-> new_strategy,
          error |-> "none", log |-> <<>>, removed |-> EmptyMap]

\* History: operation op on pool pool_id.
Logged(w, op, pool_id) == [w EXCEPT !.log = Append(@, [op |-> op, pool |-> pool_id])]

\* The exception e is raised in world w.
Raised(w, e) == [w EXCEPT !.error = e]

\* Variant of pop_allocation that leaves the delegator's strategy as it is.
keep_allocation(w, player_id, pool_id) == w

\* Lines 518-519: the delegator's strategy forgets the pool.
pop_allocation(w, player_id, pool_id) ==
    IF pool_id \in DOMAIN w.strategy[player_id].stake_allocations
    THEN [w EXCEPT !.strategy[player_id].stake_allocations = Without(@, pool_id)]
    ELSE Raised(w, "KeyError")

\* Lines 520-523: under simultaneous activation the delegator's staged strategy, if
\* there is one, forgets the pool too.
pop_staged_allocation(w, player_id, pool_id) ==
    IF w.error = "none" /\ Simultaneous /\ w.new_strategy[player_id] # NoStrategy
    THEN IF pool_id \in DOMAIN w.new_strategy[player_id].stake_allocations
         THEN [w EXCEPT !.new_strategy[player_id].stake_allocations = Without(@, pool_id)]
         ELSE Raised(w, "KeyError")
    ELSE w

\* Line 517: the pool gives the delegator's stake back.
undelegate(w, player_id, pool_id) ==
    [w EXCEPT !.pools[pool_id] =
        update_delegation(@, -w.pools[pool_id].delegators[player_id], player_id)]

\* remove_delegations, lines 516-523, for the delegators still to visit.
RECURSIVE remove_delegations_from(_, _, _)
remove_delegations_from(w, pool_id, delegators) ==
    IF delegators = {} \/ w.error # "none" THEN w
    ELSE LET player_id == CHOOSE d \in delegators : TRUE
         IN  remove_delegations_from(
                 pop_staged_allocation(
                     pop_allocation(undelegate(w, player_id, pool_id), player_id, pool_id),
                     player_id, pool_id),
                 pool_id, delegators \ {player_id})

\* Variant of remove_delegations that empties the pool's delegator map and leaves the
\* delegators' strategies as they are.
remove_from_pool_only(w, pool_id) ==
    [w EXCEPT !.pools[pool_id].stake = w.pools[pool_id].pledge,
              !.pools[pool_id].delegators = EmptyMap]

remove_delegations(w, pool_id) ==
    remove_delegations_from(w, pool_id, DOMAIN w.pools[pool_id].delegators)

\* Variant of close_pool that undelegates but leaves the pool in the registry.
close_pool_keeping(w, a, pool_id) ==
    IF pool_id \notin DOMAIN w.pools THEN Raised(w, "KeyError")
    ELSE remove_delegations(w, pool_id)

\* Line 510: the pool, which was `entered` when close_pool was called, leaves the
\* registry of world w.
pop_pool(w, pool_id, entered) ==
    IF w.error # "none" THEN w
    ELSE Logged([w EXCEPT !.pools = Without(@, pool_id),
                          !.removed = (pool_id :> [entered |-> entered,
                                                   popped |-> w.pools[pool_id]]) @@ @],
                "close", pool_id)

\* Variant of close_pool without the test of ownership.
close_pool_unchecked(w, a, pool_id) ==
    IF pool_id \notin DOMAIN w.pools THEN Raised(w, "KeyError")
    ELSE pop_pool(remove_delegations(w, pool_id), pool_id, w.pools[pool_id])

close_pool(w, a, pool_id) ==
    IF pool_id \notin DOMAIN w.pools THEN Raised(w, "KeyError")
    ELSE IF w.pools[pool_id].owner # a THEN Raised(w, "ValueError")
    ELSE pop_pool(remove_delegations(w, pool_id), pool_id, w.pools[pool_id])

\* Lines 464-466.
RECURSIVE close_pools(_, _, _)
close_pools(w, a, ids) ==
    IF ids = {} \/ w.error # "none" THEN w
    ELSE LET pool_id == CHOOSE p \in ids : TRUE
         IN  close_pools(close_pool(w, a, pool_id), a, ids \ {pool_id})

\* Lines 469-483 for one pool the agent keeps.
\* Lines 480-482: a pool that is private after the update drops its delegations.
drop_if_private(w, pool_id) ==
    IF w.pools[pool_id].is_private THEN remove_delegations(w, pool_id) ELSE w

\* History: operation op on pool pool_id, unless an exception was raised.
LoggedUnlessRaised(w, op, pool_id) == IF w.error # "none" THEN w ELSE Logged(w, op, pool_id)

update_pool(w, pool_id, updated_pool) ==
    IF pool_id \notin DOMAIN w.pools THEN Raised(w, "KeyError")
    ELSE LET pledge_diff == w.pools[pool_id].pledge - updated_pool.pledge
         IN  LoggedUnlessRaised(
                 drop_if_private([w EXCEPT !.pools[pool_id].stake = @ - pledge_diff,
                                           !.pools[pool_id].pledge = updated_pool.pledge,
                                           !.pools[pool_id].is_private =
                                               updated_pool.is_private],
                                 pool_id),
                 "update", pool_id)

\* Lines 467-483.
RECURSIVE update_pools(_, _, _)
update_pools(w, updated, ids) ==
    IF ids = {} \/ w.error # "none" THEN w
    ELSE LET pool_id == CHOOSE p \in ids : TRUE
         IN  update_pools(update_pool(w, pool_id, updated[pool_id]), updated, ids \ {pool_id})

\* Lines 451-459.
allocation_changes(old_allocations, new_allocations) ==
    [p \in DOMAIN old_allocations \cup DOMAIN new_allocations |->
        (IF p \in DOMAIN new_allocations THEN new_allocations[p] ELSE 0)
      - (IF p \in DOMAIN old_allocations THEN old_allocations[p] ELSE 0)]

\* Lines 490-495.
RECURSIVE apply_changes(_, _, _, _)
apply_changes(w, a, changes, ids) ==
    IF ids = {} \/ w.error # "none" THEN w
    ELSE LET pool_id == CHOOSE p \in ids : TRUE
             w1 == IF pool_id \notin DOMAIN w.pools THEN Raised(w, "KeyError")
                   ELSE IF changes[pool_id] = 0 THEN w
                   ELSE IF update_delegation_fails(w.pools[pool_id], changes[pool_id], a)
                        THEN Raised(w, "ValueError")
                   ELSE Logged([w EXCEPT !.pools[pool_id] =
                                             update_delegation(@, changes[pool_id], a)],
                               "delta", pool_id)
         IN  apply_changes(w1, a, changes, ids \ {pool_id})

\* The values of function f, in the ascending order of its (integer) domain.
RECURSIVE ValuesInOrder(_)
ValuesInOrder(f) ==
    IF DOMAIN f = {} THEN <<>>
    ELSE LET p == CHOOSE x \in DOMAIN f : \A y \in DOMAIN f : x <= y
         IN  <<f[p]>> \o ValuesInOrder(Restrict(f, DOMAIN f \ {p}))

\* Lines 485-488: the staged strategy becomes the strategy and its new pools are
\* registered (open_pool).
open_pools(w, a, old_owned_pools) ==
    LET staged == w.new_strategy[a]
        opened == owned_ids(staged) \ old_owned_pools
    IN  [w EXCEPT !.strategy[a] = staged,
                  !.new_strategy[a] = NoStrategy,
                  !.pools = [p \in opened |->
                                NewPool(a, staged.owned_pools[p].pledge,
                                        staged.owned_pools[p].is_private)] @@ @,
                  !.log = @ \o ValuesInOrder([p \in opened |-> [op |-> "open", pool |-> p]])]

\* Lines 485-488 are reached only if nothing was raised before.
open_unless_raised(w, a, old_owned_pools) ==
    IF w.error = "none" THEN open_pools(w, a, old_owned_pools) ELSE w

\* Variant of execute_strategy that applies the allocation deltas first.
execute_strategy_deltas_first(a) ==
    LET old_owned_pools == owned_ids(strategy[a])
        new_owned_pools == owned_ids(new_strategy[a])
        changes == allocation_changes(strategy[a].stake_allocations,
                                      new_strategy[a].stake_allocations)
        applied == apply_changes(World, a, changes, DOMAIN changes)
        closed == close_pools(applied, a, old_owned_pools \ new_owned_pools)
        updated == update_pools(closed, new_strategy[a].owned_pools,
                                new_owned_pools \cap old_owned_pools)
    IN  open_unless_raised(updated, a, old_owned_pools)

\* execute_strategy of agent a in the current state.
execute_strategy(a) ==
    LET old_owned_pools == owned_ids(strategy[a])
        new_owned_pools == owned_ids(new_strategy[a])
        changes == allocation_changes(strategy[a].stake_allocations,
                                      new_strategy[a].stake_allocations)
        closed == close_pools(World, a, old_owned_pools \ new_owned_pools)
        updated == update_pools(closed, new_strategy[a].owned_pools,
                                new_owned_pools \cap old_owned_pools)
        opened == open_unless_raised(updated, a, old_owned_pools)
    IN  apply_changes(opened, a, changes, DOMAIN changes)

\* The pools open_pool registers when agent a commits.
opened_pools(a) == owned_ids(new_strategy[a]) \ owned_ids(strategy[a])

\* ------------------------------------------------------------- step, advance
\* step(), lines 42-44.
cooldown_after_step(remaining) == IF remaining > 0 THEN remaining - 1 ELSE remaining

SetMax(S, default) == IF S = {} THEN default ELSE CHOOSE x \in S : \A y \in S : y <= x

ClearLocals ==
    /\ current_utility' = 0
    /\ possible_moves' = EmptyMap
    /\ max_utility_option' = "none"
    /\ options_left' = {}
    /\ max_operator' = [utility |-> 0, strategy |-> NoStrategy]
    /\ operator_strategy' = NoStrategy
    /\ desirability_order' = <<>>
    /\ id_seq_at_entry' = 0

\* The scheduler moves to the next agent of the pass, or to next_pc after the last.
NextInPass(next_pc, next_queue) ==
    IF Len(queue) > 1
    THEN queue' = Tail(queue) /\ UNCHANGED pc
    ELSE queue' = next_queue /\ pc' = next_pc

\* Lines 44 and 42-43: the cooldown after this call.
cooldown_left(remaining, decrement) ==
    IF decrement THEN cooldown_after_step(remaining) ELSE remaining

\* Agent a's execute_strategy has turned the world into w: the model's variables take
\* its outcome, and advance() (line 52) marks the round as not idle.
Commit(a, w, decrement, next_pc) ==
    LET registered == w.new_strategy[a] = NoStrategy /\ opened_pools(a) # {}
    IN  /\ pools' = w.pools
        /\ strategy' = w.strategy
        /\ new_strategy' = w.new_strategy
        /\ error' = w.error
        /\ remaining_min_steps_to_keep_pool' =
               [remaining_min_steps_to_keep_pool EXCEPT ![a] =
                   IF w.error # "none" THEN @
                   ELSE cooldown_left(IF registered THEN min_steps_to_keep_pool ELSE @,
                                      decrement)]
        /\ max_registered' =
               IF registered THEN SetMax(opened_pools(a) \cup {max_registered}, 0)
               ELSE max_registered
        /\ last_commit' =
               [agent |-> a, log |-> w.log, removed |-> w.removed,
                changes |-> allocation_changes(strategy[a].stake_allocations,
                                               new_strategy[a].stake_allocations)]
        /\ keep_rounds' =
               [p \in DOMAIN w.pools |->
                   IF p \in DOMAIN keep_rounds THEN keep_rounds[p]
                   ELSE [rounds |-> min_steps_to_keep_pool, opened_now |-> TRUE]]
        /\ IF w.error # "none"
           THEN /\ pc' = "crashed"
                /\ UNCHANGED <<queue, current_step_idle, round_commits>>
           ELSE /\ current_step_idle' = FALSE
                /\ round_commits' = round_commits + 1
                /\ NextInPass(next_pc, <<>>)
        /\ UNCHANGED <<steps, running, current_era, k, beta, perceived_active_stake,
                       min_steps_to_keep_pool, pool_splitting, max_iterations,
                       consecutive_idle_steps, equilibrium_steps, pivot_steps,
                       idle_streak>>

\* advance(): execute the staged strategy, if there is one, and mark the round as not
\* idle.  `decrement` tells whether step() goes on to lines 42-44 afterwards.
Advance(a, decrement, next_pc) ==
    IF new_strategy[a] = NoStrategy
    THEN /\ remaining_min_steps_to_keep_pool' =
                [remaining_min_steps_to_keep_pool EXCEPT ![a] = cooldown_left(@, decrement)]
         /\ NextInPass(next_pc, <<>>)
         /\ UNCHANGED <<simVars, strategy, new_strategy, pools, histVars, error>>
    ELSE Commit(a, execute_strategy(a), decrement, next_pc)

\* step() after make_move().  Under simultaneous activation the staged strategy waits
\* for advance(); otherwise it is executed here.  Then lines 42-44.
FinishStep(a) ==
    /\ Deciding(a)
    /\ apc = "selected"
    /\ apc' = "idle"
    /\ ClearLocals
    /\ IF Simultaneous
       THEN /\ remaining_min_steps_to_keep_pool' =
                   [remaining_min_steps_to_keep_pool EXCEPT ![a] = cooldown_after_step(@)]
            /\ NextInPass("advance", [i \in 1..NumAgents |-> i])
            /\ UNCHANGED <<simVars, strategy, new_strategy, pools, histVars, error>>
       ELSE Advance(a, TRUE, "end")
    /\ UNCHANGED <<constVars, unitVars, id_seq>>

\* SimultaneousActivation calls advance() of every agent once all have stepped.
AdvanceAgent(a) ==
    /\ pc = "advance"
    /\ queue # <<>> /\ Head(queue) = a
    /\ Advance(a, FALSE, "end")
    /\ UNCHANGED <<constVars, unitVars, localVars, id_seq, apc>>

Next ==
    \/ RunModelExit
    \/ StepCap
    \/ StepActivate
    \/ StepEnd
    \/ \E a \in Agents : BeginUpdate(a)
    \/ \E a \in Agents : OperatorMove(a)
    \/ \E a \in Agents : SelectMove(a)
    \/ \E a \in Agents : FinishStep(a)
    \/ \E a \in Agents : AdvanceAgent(a)

\* ------------------------------------------------------------ specifications
\* The args dictionaries built from the given choices for every field.
ArgsOf(ks, min_steps, splittings, iterations, convergences, rels, abss, orders, stakes, files, params) ==
    [k : ks, min_steps_to_keep_pool : min_steps, pool_splitting : splittings,
     max_iterations : iterations, steps_for_convergence : convergences,
     relative_utility_threshold : rels, absolute_utility_threshold : abss,
     agent_activation_order : orders, stake : stakes, input_from_file : files,
     min_steps_to_keep_pool_param : params]

ActivationOrders == {"Sequential", "Random", "Simultaneous"}

MainArgs ==
    ArgsOf({<<1>>}, {<<1>>}, {<<TRUE>>, <<FALSE>>}, {<<3>>}, {1}, {0, 1}, {0, 1},
           ActivationOrders, {[a \in Agents |-> 12]}, {FALSE}, {1})

Init ==
    InitWith(MainArgs, {[min_utility |-> -1, max_utility |-> 1, profitable |-> P] : P \in SUBSET Agents})

Spec == Init /\ [][Next]_vars

\* Runs over several eras, args read from args.json (input_from_file): the lists give
\* the value of a field per era.
EraArgs ==
    ArgsOf({<<1>>, <<1, 2>>}, {<<0>>, <<0, 2>>}, {<<FALSE>>}, {<<3>>, <<3, 1>>}, {1, 2}, {0}, {0},
           ActivationOrders, {[a \in Agents |-> 12]}, {TRUE}, {0})

InitEras ==
    InitWith(EraArgs, {[min_utility |-> 0, max_utility |-> 1, profitable |-> P] : P \in SUBSET Agents})

SpecEras == InitEras /\ [][Next]_vars

\* Runs long enough for the periodic belief revision.
BeliefArgs ==
    ArgsOf({<<1>>, <<1, 2>>}, {<<0>>}, {<<FALSE>>}, {<<revision_frequency + 1>>},
           {1, revision_frequency + 2}, {0}, {0, 1}, ActivationOrders,
           {[a \in Agents |-> 12]}, {FALSE}, {0})

InitBeliefs ==
    InitWith(BeliefArgs, {[min_utility |-> 0, max_utility |-> 1, profitable |-> Agents]})

SpecBeliefs == InitBeliefs /\ [][Next]_vars

\* ------------------------------------------------------------------ properties
Threshold == min_consecutive_idle_steps_for_convergence

\* The step that ends a round declares convergence.
Declares == Len(equilibrium_steps') = Len(equilibrium_steps) + 1

\* C1: at the end of a round the idle counter grows by exactly 1 if no agent executed a
\* staged strategy during the round and is reset to 0 otherwise; convergence is declared
\* only at the end of a round without a commit that completes a streak of at least
\* min_consecutive_idle_steps_for_convergence such rounds.
C1_IdleAccounting ==
    [][/\ pc = "end" =>
            consecutive_idle_steps' =
                IF round_commits = 0 THEN consecutive_idle_steps + 1 ELSE 0
       /\ Declares => /\ pc = "end"
                      /\ round_commits = 0
                      /\ idle_streak' >= Threshold]_vars

\* A run in which a pool was opened and convergence was declared later.
C1_Witness == equilibrium_steps # <<>> /\ max_registered > 0 /\ Threshold > 1

\* C2: the convergence threshold is at least the pool-opening cooldown plus one in every
\* reachable state.
C2_ThresholdCoversCooldown == Threshold >= min_steps_to_keep_pool + 1

\* C3: a round that ends idle with the counter reaching the threshold records exactly
\* one equilibrium step and either advances the era by one or finishes the run, never
\* both; no other step records an equilibrium step, changes the era or finishes by
\* convergence, so the equilibrium steps count the eras left by convergence.
C3_OneExitPerEra ==
    /\ [](/\ Len(equilibrium_steps) \in {current_era, current_era + 1}
          /\ Len(equilibrium_steps) = current_era + 1 =>
                ~running /\ current_era = total_eras - 1)
    /\ [][pc = "end" =>
            IF current_step_idle /\ consecutive_idle_steps + 1 >= Threshold
            THEN /\ Declares
                 /\ \/ current_era' = current_era + 1 /\ running' = running
                    \/ current_era' = current_era /\ running /\ ~running'
            ELSE UNCHANGED <<equilibrium_steps, current_era, running>>]_vars

\* Two eras were left by convergence: the first by an era advance, the last by finishing.
C3_Witness == Len(equilibrium_steps) = 2 /\ current_era = 1 /\ ~running

\* C4 (amended): beta * k = total_stake holds after construction and after every era
\* transition that overrides k; the periodic belief revision sets k to
\* ceil(active stake / beta) and leaves beta as it is.
C4_BetaFollowsEraK ==
    /\ beta * k = total_stake
    /\ [][/\ (current_era' # current_era /\ Len(args.k) > current_era') =>
                (k' = EraValue(args.k, current_era') /\ beta' * k' = total_stake)
          /\ current_era' = current_era =>
                /\ beta' = beta
                /\ k' # k => k' = CeilDiv(ActiveStakePools(pools), beta)]_vars

\* After an era transition that overrode k, a belief revision has moved k away from
\* total_stake / beta.
C4_Witness ==
    /\ current_era > 0
    /\ steps >= revision_frequency
    /\ perceived_active_stake # total_stake
    /\ beta * k # total_stake

\* C4 as stated: beta * k = total_stake after every update of k.
C4_BetaFollowsEveryK == [][k' # k => beta' * k' = total_stake]_vars

\* C5: run_model returns only with running = FALSE.
C5_ReturnsFinished == pc = "done" => ~running

\* C6: the era index never exceeds total_eras - 1; it changes only by +1 and only in the
\* step that declares convergence; a convergence declared while eras remain advances
\* the era and keeps the run running, one declared in the last era finishes the run.
C6_EraTransitions ==
    /\ [](current_era <= total_eras - 1)
    /\ [][/\ current_era' # current_era =>
                (current_era' = current_era + 1 /\ pc = "end" /\ Declares)
          /\ Declares =>
                IF current_era < total_eras - 1
                THEN current_era' = current_era + 1 /\ running /\ running'
                ELSE current_era' = current_era /\ ~running']_vars

\* A run that advanced to its last era and is still running there.
C6_Witness == total_eras > 1 /\ current_era = total_eras - 1 /\ running /\ pc = "step"

\* The agent whose step() is in progress.
Decider == Head(queue)

\* update_strategy has just returned.
Decided == pc = "step" /\ apc = "selected"

\* C7: every pool id that a commit registers is higher than every id registered before,
\* so no registered id is ever given to another pool; the allocator never falls below
\* the highest registered id, and a registered pool keeps its owner.
C7_IdsNeverReused ==
    /\ [](max_registered <= id_seq /\ \A p \in DOMAIN pools : p <= max_registered)
    /\ [][/\ \A a \in Agents :
                (new_strategy[a] # NoStrategy /\ new_strategy'[a] = NoStrategy) =>
                    \A p \in opened_pools(a) : p > max_registered
          /\ \A p \in DOMAIN pools \cap DOMAIN pools' : pools'[p].owner = pools[p].owner
          /\ \A p \in DOMAIN pools' \ DOMAIN pools : p > max_registered]_vars

\* An id below the highest registered one is free again (its pool was closed or the id
\* was never registered) while the newest pool is in the registry.
C7_Witness ==
    /\ max_registered \in DOMAIN pools
    /\ \E p \in 1..max_registered : p \notin DOMAIN pools

\* C8: when update_strategy computed an operator move and chose another move, the id
\* allocator is back at the value it had when update_strategy was entered.
C8_RejectedOperatorReturnsIds ==
    (Decided /\ "operator" \in DOMAIN possible_moves /\ max_utility_option # "operator")
        => id_seq = id_seq_at_entry

\* C9: update_strategy stages a strategy only if its utility is strictly greater than
\* max((1 + relative threshold) * current utility, current utility + absolute
\* threshold); when no alternative is strictly greater than that baseline nothing is
\* staged.
C9_StagedBeatsBaseline ==
    Decided =>
        LET baseline == Max((1 + args.relative_utility_threshold) * current_utility,
                            current_utility + args.absolute_utility_threshold)
            alternatives == DOMAIN possible_moves \ {"current"}
        IN  /\ new_strategy[Decider] # NoStrategy =>
                  /\ max_utility_option \in alternatives
                  /\ new_strategy[Decider] = possible_moves[max_utility_option].strategy
                  /\ possible_moves[max_utility_option].utility > baseline
            /\ (\A key \in alternatives : possible_moves[key].utility <= baseline) =>
                  new_strategy[Decider] = NoStrategy

\* An alternative beat the current utility but not the baseline, and nothing was staged.
C9_Witness ==
    /\ Decided
    /\ new_strategy[Decider] = NoStrategy
    /\ \E key \in DOMAIN possible_moves \ {"current"} :
          possible_moves[key].utility > current_utility

\* C10: the selected move has maximal utility, and among moves of equal maximal utility
\* it is the first of current, delegator, operator: the operator move is selected only
\* if its utility is strictly greater than the inflated current utility and than the
\* delegator utility (when there is one), the delegator move only if strictly greater
\* than the inflated current utility.
C10_TiesFavourListedOrder ==
    Decided =>
        LET utility(key) == possible_moves[key].utility
        IN  /\ max_utility_option \in DOMAIN possible_moves
            /\ \A key \in DOMAIN possible_moves : utility(key) <= utility(max_utility_option)
            /\ max_utility_option = "operator" =>
                  /\ utility("operator") > utility("current")
                  /\ "delegator" \in DOMAIN possible_moves =>
                        utility("operator") > utility("delegator")
            /\ max_utility_option = "delegator" =>
                  utility("delegator") > utility("current")

\* The delegator and the operator move tie above the current one; the delegator wins.
C10_Witness ==
    /\ Decided
    /\ DOMAIN possible_moves = {"current", "delegator", "operator"}
    /\ possible_moves["delegator"].utility = possible_moves["operator"].utility
    /\ possible_moves["delegator"].utility > possible_moves["current"].utility
    /\ max_utility_option = "delegator"

\* Runs in which pool splitting is switched off by an era transition while the
\* cooldown of min_steps_to_keep_pool rounds is longer than the convergence threshold.
CooldownArgs ==
    ArgsOf({<<1>>}, {<<3>>}, {<<TRUE, FALSE>>}, {<<4>>}, {1}, {0}, {0}, ActivationOrders, {[a \in Agents |-> 12]}, {TRUE}, {0})

InitCooldown ==
    InitWith(CooldownArgs, {[min_utility |-> 0, max_utility |-> 1, profitable |-> Agents]})

SpecCooldown == InitCooldown /\ [][Next]_vars

\* C11: while the deciding agent's cooldown counter is positive, update_strategy does
\* not compute the delegator move, every operator candidate it builds keeps all the
\* pool ids the agent owns, and so does the strategy it stages.
C11_CooldownKeepsPools ==
    (pc = "step" /\ queue # <<>> /\ remaining_min_steps_to_keep_pool[Decider] > 0) =>
        /\ "delegator" \notin DOMAIN possible_moves
        /\ operator_strategy # NoStrategy =>
              owned_ids(strategy[Decider]) \subseteq owned_ids(operator_strategy)
        /\ (apc = "selected" /\ new_strategy[Decider] # NoStrategy) =>
              owned_ids(strategy[Decider]) \subseteq owned_ids(new_strategy[Decider])

\* The agents whose committed strategy owns pool p.
owners_of(p) == {a \in Agents : p \in owned_ids(strategy[a])}

\* C12: as long as no commit has failed, a pool id is in the registry if and only if
\* exactly one agent's committed strategy owns it, and that agent is the pool's owner.
C12_RegistryMatchesOwnership ==
    error = "none" =>
        /\ \A p \in DOMAIN pools : owners_of(p) = {pools[p].owner}
        /\ \A a \in Agents : owned_ids(strategy[a]) \subseteq DOMAIN pools

\* A round with a commit after which both agents operate pools.
C12_Witness ==
    /\ pc = "end"
    /\ round_commits > 0
    /\ \A a \in Agents : owned_ids(strategy[a]) # {}

\* C13: when a commit that does not fail closes a pool, the pool was popped from the
\* registry with an empty delegator map and its pledge as its stake, and afterwards no
\* agent's committed stake allocations mention its id; as long as no commit has failed,
\* committed stake allocations mention registered pools only.
C13_ClosedPoolLeavesNoDelegation ==
    /\ [](error = "none" =>
            \A a \in Agents : DOMAIN strategy[a].stake_allocations \subseteq DOMAIN pools)
    /\ [][error' = "none" =>
            \A p \in DOMAIN pools \ DOMAIN pools' :
                /\ p \in DOMAIN last_commit'.removed
                /\ last_commit'.removed[p].entered = pools[p]
                /\ last_commit'.removed[p].popped.delegators = EmptyMap
                /\ last_commit'.removed[p].popped.stake = pools[p].pledge
                /\ \A a \in Agents : p \notin DOMAIN strategy'[a].stake_allocations]_vars

\* A commit has closed a pool that had delegators.
C13_Witness ==
    /\ error = "none"
    /\ \E p \in DOMAIN last_commit.removed :
          last_commit.removed[p].entered.delegators # EmptyMap

OwnershipOps == {"close", "update", "open"}

\* C14: in the operations of one execute_strategy, no closing, in-place update or
\* opening of a pool comes after an allocation delta of the committing agent.
C14_OwnershipBeforeDeltas ==
    \A i, j \in DOMAIN last_commit.log :
        (i < j /\ last_commit.log[i].op = "delta") => last_commit.log[j].op = "delta"

\* A commit that closed a pool and then applied an allocation delta.
C14_Witness ==
    /\ error = "none"
    /\ \E i, j \in DOMAIN last_commit.log :
          /\ last_commit.log[i].op = "close"
          /\ last_commit.log[j].op = "delta"

\* Runs under simultaneous activation with pool splitting and agents of unequal stake,
\* long enough for one agent to open three pools and merge them into one.
StaleArgs ==
    ArgsOf({<<2>>}, {<<0>>}, {<<TRUE>>}, {<<5>>}, {9}, {0}, {0}, {"Simultaneous"}, {[a \in Agents |-> IF a = 1 THEN 12 ELSE 4]}, {FALSE}, {0})

InitStale ==
    InitWith(StaleArgs, {[min_utility |-> 0, max_utility |-> 1, profitable |-> Agents]})

SpecStale == InitStale /\ [][Next]_vars

\* Agent a is about to execute its staged strategy.
Committing(a) ==
    /\ queue # <<>> /\ Head(queue) = a
    /\ new_strategy[a] # NoStrategy
    /\ pc = "advance" \/ (pc = "step" /\ apc = "selected" /\ ~Simultaneous)

\* C15: executing a staged strategy that is identical to the agent's strategy computes
\* an allocation delta of zero for every pool, closes and opens no pool and leaves the
\* registry (every pool's pledge, stake and delegator map) as it was.
C15_IdenticalCommitChangesNothing ==
    [][\A a \in Agents :
          (Committing(a) /\ new_strategy[a] = strategy[a]) =>
              /\ \A p \in DOMAIN last_commit'.changes : last_commit'.changes[p] = 0
              /\ \A i \in DOMAIN last_commit'.log : last_commit'.log[i].op = "update"
              /\ pools' = pools]_vars

\* The agent at the head of the pass is inside update_strategy.
InDecidePhase == pc = "step" /\ apc # "selected"

\* C16: no step of update_strategy changes the registry or any agent's strategy; under
\* simultaneous activation nothing changes them while agents are still being stepped,
\* no commit of the round precedes the advance pass, and the advance pass begins only
\* when the last agent of the pass has finished its step.
C16_DecideLeavesCommittedState ==
    /\ [][InDecidePhase => (pools' = pools /\ strategy' = strategy)]_vars
    /\ [][(args.agent_activation_order = "Simultaneous" /\ pc = "step") =>
              /\ pools' = pools /\ strategy' = strategy
              /\ round_commits' = 0
              /\ pc' = "advance" => (Len(queue) = 1 /\ apc = "selected")]_vars

\* Under simultaneous activation one agent's commit has been applied while another
\* agent's staged move, decided before that commit, is still waiting.
C16_Witness ==
    /\ args.agent_activation_order = "Simultaneous"
    /\ pc = "advance" /\ error = "none"
    /\ round_commits = 1
    /\ queue # <<>> /\ new_strategy[Head(queue)] # NoStrategy

\* The agents whose potential profit is never positive in this run.
Unprofitable == Agents \ env.profitable

\* C17: an agent whose potential profit is not positive at any saturation point of the
\* run never gets has_potential_for_pool() = True (update_strategy never goes on to the
\* operator moves for it), and in every state it is no pool operator, owns no pool in
\* its strategy or staged strategy, and no pool of the registry is its own.
C17_UnprofitableNeverOperates ==
    /\ [](\A a \in Unprofitable :
            /\ ~strategy[a].is_pool_operator /\ owned_ids(strategy[a]) = {}
            /\ new_strategy[a] # NoStrategy => owned_ids(new_strategy[a]) = {}
            /\ \A p \in DOMAIN pools : pools[p].owner # a)
    /\ [][\A a \in Unprofitable :
            (Deciding(a) /\ apc = "idle") => apc' # "operator_moves"]_vars

\* After a change of the saturation point an agent without positive potential profit
\* has decided while the other agent operates a pool.
C17_Witness ==
    /\ current_era > 0 /\ beta # TotalStake(args) \div EraValue(args.k, 0)
    /\ Decided /\ error = "none"
    /\ Decider \in Unprofitable
    /\ \E p \in DOMAIN pools : pools[p].owner # Decider

\* ------------------------------------------------------------- single calls
\* Unit runs: one call of calculate_utility or close_pool on a registry and strategies
\* drawn from small sets, among them allocations to pool ids the registry does not have
\* and pools the caller does not own.
MaxCallId == 2

CallIds == 1..MaxCallId

\* A public pool of pledge 4 to which each of `delegators` has delegated 2.
CallPool(owner, delegators) ==
    [owner |-> owner, pledge |-> 4, stake |-> 4 + 2 * Cardinality(delegators),
     is_private |-> FALSE, delegators |-> [d \in delegators |-> 2]]

CallPools == UNION {{CallPool(o, D) : D \in SUBSET (Agents \ {o})} : o \in Agents}

Registries == UNION {[ids -> CallPools] : ids \in SUBSET CallIds}

\* Stake allocations of 0 or 2 to pool ids that may or may not be registered.
Allocations == UNION {[ids -> {0, 2}] : ids \in SUBSET (1..MaxCallId + 1)}

\* The strategy of agent a: it owns its pools of the registry.
CallStrategy(a, registry, allocations) ==
    LET owned == {p \in DOMAIN registry : registry[p].owner = a}
    IN  [is_pool_operator |-> owned # {},
         owned_pools |-> [p \in owned |-> [pledge |-> 4, is_private |-> FALSE]],
         stake_allocations |-> allocations]

Calls ==
    {[method |-> "calculate_utility", agent |-> a, pool_id |-> 0] : a \in Agents}
        \cup {[method |-> "close_pool", agent |-> a, pool_id |-> p] : a \in Agents, p \in CallIds}

CallArgs ==
    ArgsOf({<<1>>}, {<<0>>}, {<<TRUE>>}, {<<1>>}, {1}, {0}, {0}, {"Sequential", "Simultaneous"}, {[a \in Agents |-> 12]}, {FALSE}, {0})

InitCalls ==
    /\ Constructed(CallArgs, {[min_utility |-> 0, max_utility |-> 1, profitable |-> Agents]})
    /\ NothingOpened
    /\ call \in Calls
    /\ pools \in Registries
    /\ \E allocations \in [Agents -> Allocations] :
          strategy = [a \in Agents |-> CallStrategy(a, pools, allocations[a])]
    /\ pc = "call"

\* calculate_utility(self.strategy) of agent call.agent, lines 100-117.
CallCalculateUtility ==
    /\ pc = "call" /\ call.method = "calculate_utility"
    /\ IF allocates_to_missing_pool(strategy[call.agent])
       THEN /\ error' = "PoolNotFoundError"
            /\ pc' = "crashed"
            /\ UNCHANGED current_utility
       ELSE /\ \E utility \in StrategyUtilities(strategy[call.agent]) :
                  current_utility' = utility
            /\ pc' = "returned"
            /\ UNCHANGED error
    /\ UNCHANGED <<simVars, constVars, unitVars, agentVars, histVars, pools, id_seq, queue, apc,
                   possible_moves, max_utility_option, options_left, max_operator,
                   operator_strategy, desirability_order, id_seq_at_entry>>

\* The call has turned the world into w.
Returned(w) ==
    /\ pools' = w.pools
    /\ strategy' = w.strategy
    /\ new_strategy' = w.new_strategy
    /\ error' = w.error
    /\ pc' = IF w.error = "none" THEN "returned" ELSE "crashed"

\* close_pool(call.pool_id) of agent call.agent, lines 501-510.
CallClosePool ==
    /\ pc = "call" /\ call.method = "close_pool"
    /\ Returned(close_pool(World, call.agent, call.pool_id))
    /\ UNCHANGED <<simVars, constVars, unitVars, remaining_min_steps_to_keep_pool, localVars, histVars,
                   id_seq, queue, apc>>

NextCalls == CallCalculateUtility \/ CallClosePool

SpecCalls == InitCalls /\ [][NextCalls]_vars

\* Agent a is about to compute the utility of its strategy.
Evaluating(a) ==
    \/ pc = "call" /\ call.method = "calculate_utility" /\ call.agent = a
    \/ Deciding(a) /\ apc = "idle"

\* C18: when an agent computes the utility of its strategy and the strategy allocates a
\* positive amount to a pool id that is not in the registry, the computation ends with
\* PoolNotFoundError, and the registry and every agent's strategy and staged strategy
\* are as they were.
C18_MissingPoolRaises ==
    [][\A a \in Agents :
          (/\ Evaluating(a)
           /\ \E p \in DOMAIN strategy[a].stake_allocations :
                 strategy[a].stake_allocations[p] > 0 /\ p \notin DOMAIN pools)
          => /\ error' = "PoolNotFoundError" /\ pc' = "crashed"
             /\ pools' = pools
             /\ strategy' = strategy /\ new_strategy' = new_strategy]_vars

\* calculate_utility has failed on a strategy that also has a positive allocation to a
\* registered pool.
C18_Witness ==
    /\ call.method = "calculate_utility" /\ pc = "crashed"
    /\ error = "PoolNotFoundError"
    /\ \E p \in DOMAIN pools :
          /\ p \in DOMAIN strategy[call.agent].stake_allocations
          /\ strategy[call.agent].stake_allocations[p] > 0

\* C19: close_pool called by an agent on a registered pool of another owner ends with
\* ValueError, and the registry (the pool, its stake and its delegator map) and every
\* agent's strategy are as they were.
C19_ForeignCloseRaises ==
    [][(/\ pc = "call" /\ call.method = "close_pool"
        /\ call.pool_id \in DOMAIN pools
        /\ pools[call.pool_id].owner # call.agent)
       => /\ error' = "ValueError" /\ pc' = "crashed"
          /\ pools' = pools
          /\ strategy' = strategy /\ new_strategy' = new_strategy]_vars

\* close_pool has failed on another owner's pool that has a delegator whose strategy
\* allocates stake to it.
C19_Witness ==
    /\ call.method = "close_pool" /\ pc = "crashed"
    /\ error = "ValueError"
    /\ call.pool_id \in DOMAIN pools
    /\ pools[call.pool_id].owner # call.agent
    /\ \E d \in DOMAIN pools[call.pool_id].delegators :
          /\ call.pool_id \in DOMAIN strategy[d].stake_allocations
          /\ strategy[d].stake_allocations[call.pool_id] = pools[call.pool_id].delegators[d]

\* Agent a's committed allocation to pool p (0 if it has none).
allocated(a, p) ==
    IF p \in DOMAIN strategy[a].stake_allocations THEN strategy[a].stake_allocations[p] ELSE 0

\* The books of pool p agree with themselves and with the agents' strategies.
Balanced(p) ==
    /\ pools[p].stake = pools[p].pledge + SumOver(DOMAIN pools[p].delegators, pools[p].delegators)
    /\ \A d \in DOMAIN pools[p].delegators : pools[p].delegators[d] > 0
    /\ \A a \in Agents : delegated(pools[p], a) = allocated(a, p)

\* C20: as long as no call has raised, every pool of the registry has stake = pledge +
\* the sum of its delegators' amounts, only positive amounts in its delegator map, and
\* for every agent the amount the agent's committed strategy allocates to it.
C20_PoolBooksBalance == error = "none" => \A p \in DOMAIN pools : Balanced(p)

\* C20 as stated, for every reachable state, the states a raised exception leaves
\* included.
C20_PoolBooksBalanceAlways == \A p \in DOMAIN pools : Balanced(p)

\* C21: in every state each pool of the registry is private exactly if its pledge is
\* at least beta, and a private pool has no delegators.
C21_PrivateIffSaturatedPledge ==
    \A p \in DOMAIN pools :
        /\ pools[p].is_private = (pools[p].pledge >= beta)
        /\ pools[p].is_private => pools[p].delegators = EmptyMap

\* The two parts of C21 apart, in the states no exception has left.
C21_PrivacyFollowsBeta ==
    error = "none" => \A p \in DOMAIN pools : pools[p].is_private = (pools[p].pledge >= beta)

C21_PrivateHasNoDelegators ==
    error = "none" => \A p \in DOMAIN pools : pools[p].is_private => pools[p].delegators = EmptyMap

\* -------------------------------------------------------------- helper calls
\* Unit runs of the pure helpers: one call on arguments drawn from small sets and on
\* the cases of src/tests/test_helper.py.  Scores are written in hundredths.
MaxRanked == 3

Scores == 0..1

\* A dict of scores in insertion order, with the secondary score of each id (0 when no
\* secondary scores are passed).
RankEntries(n) == [1..n -> [id : 1..MaxRanked, primary : Scores, secondary : Scores]]

RankInputs ==
    {e \in UNION {RankEntries(n) : n \in 1..MaxRanked} :
        \A i, j \in DOMAIN e : i # j => e[i].id # e[j].id}

RankEntry(id, primary, secondary) == [id |-> id, primary |-> primary, secondary |-> secondary]

\* test_calculate_ranks, lines 68-71.
RanksCase ==
    <<RankEntry(5, 20, 0), RankEntry(3, 30, 0), RankEntry(1, 10, 0), RankEntry(12, 90, 0),
      RankEntry(8, 80, 0)>>

RanksCaseExpected == (5 :> 4) @@ (3 :> 3) @@ (1 :> 5) @@ (12 :> 1) @@ (8 :> 2)

\* test_calculate_ranks_with_tie_breaking, lines 74-78.
TiedRanksCase ==
    <<RankEntry(5, 20, 80), RankEntry(3, 20, 70), RankEntry(1, 10, 99), RankEntry(12, 90, 80),
      RankEntry(8, 90, 90)>>

TiedRanksCaseExpected == (5 :> 3) @@ (3 :> 4) @@ (1 :> 5) @@ (12 :> 2) @@ (8 :> 1)

\* Entry j comes before entry i: a higher primary score, then a higher secondary score,
\* then the earlier place in the dict.
ranked_before(e, j, i) ==
    \/ e[j].primary > e[i].primary
    \/ e[j].primary = e[i].primary /\ e[j].secondary > e[i].secondary
    \/ e[j].primary = e[i].primary /\ e[j].secondary = e[i].secondary /\ j < i

\* Variant of ranked_before that breaks ties of the primary score by the lower secondary
\* score.
ranked_before_low_secondary(e, j, i) ==
    \/ e[j].primary > e[i].primary
    \/ e[j].primary = e[i].primary /\ e[j].secondary < e[i].secondary
    \/ e[j].primary = e[i].primary /\ e[j].secondary = e[i].secondary /\ j < i

\* Variant of calculate_ranks that breaks ties of the primary score the other way round.
calculate_ranks_low_secondary(e) ==
    [id \in {e[i].id : i \in DOMAIN e} |->
        LET i == CHOOSE x \in DOMAIN e : e[x].id = id
        IN  1 + Cardinality({j \in DOMAIN e : ranked_before_low_secondary(e, j, i)})]

\* hlp.calculate_ranks: the rank of an id is one more than the number of ids before it.
calculate_ranks(e) ==
    [id \in {e[i].id : i \in DOMAIN e} |->
        LET i == CHOOSE x \in DOMAIN e : e[x].id = id
        IN  1 + Cardinality({j \in DOMAIN e : ranked_before(e, j, i)})]

\* ---- hlp.calculate_pool_reward.  Stake, pledge and beta are whole numbers of one unit,
\* alpha is given in tenths, and the reward is counted in units of
\* R / (10 * (1 + alpha) * beta^2), which is the same for all calls with the same alpha
\* and beta.
MaxBeta == 3

AlphaTenths == {3, 5}

\* Variant of calculate_pool_reward that does not cap the stake at beta.
calculate_pool_reward_uncapped(stake, pledge, alpha_tenths, b) ==
    LET pledge_ == Min(pledge, b)
    IN  10 * b * b * stake + alpha_tenths * pledge_ * (b * stake - pledge_ * (b - stake))

\* The two-region reward curve: R / (1 + alpha) * (stake_ + pledge_ * alpha *
\* (stake_ - pledge_ * (beta - stake_) / beta) / beta) with stake and pledge capped at
\* beta.
calculate_pool_reward(stake, pledge, alpha_tenths, b) ==
    LET stake_ == Min(stake, b)
        pledge_ == Min(pledge, b)
    IN  10 * b * b * stake_ + alpha_tenths * pledge_ * (b * stake_ - pledge_ * (b - stake_))

\* The pools (stake, pledge) of a call: the pledge is part of the stake.
RewardPoints(b) == {pt \in [stake : 0..2 * b, pledge : 0..b] : pt.pledge <= pt.stake}

RewardPoint(stake, pledge) == [stake |-> stake, pledge |-> pledge]

\* test_calculate_pool_reward_variable_stake, lines 20-36, in hundredths.
VariableStakeCase ==
    [method |-> "calculate_pool_reward", alpha |-> 3, beta |-> 10,
     points |-> <<RewardPoint(1, 1), RewardPoint(10, 1), RewardPoint(20, 1)>>]

\* test_calculate_pool_reward_variable_pledge, lines 39-52, in hundredths.
VariablePledgeCase ==
    [method |-> "calculate_pool_reward", alpha |-> 3, beta |-> 10,
     points |-> <<RewardPoint(10, 1), RewardPoint(10, 5), RewardPoint(10, 10)>>]

RewardCallsAt(b) ==
    [method : {"calculate_pool_reward"}, alpha : AlphaTenths, beta : {b},
     points : [1..2 -> RewardPoints(b)]]

RewardCalls ==
    UNION {RewardCallsAt(b) : b \in 1..MaxBeta} \cup {VariableStakeCase, VariablePledgeCase}

RankCalls == {[method |-> "calculate_ranks", entries |-> e] : e \in RankInputs \cup {RanksCase, TiedRanksCase}}

HelperCalls == RankCalls \cup RewardCalls

HelperArgs ==
    ArgsOf({<<1>>}, {<<0>>}, {<<TRUE>>}, {<<1>>}, {1}, {0}, {0}, {"Sequential"}, {[a \in Agents |-> 12]}, {FALSE}, {0})

InitHelpers ==
    /\ Constructed(HelperArgs, {[min_utility |-> 0, max_utility |-> 1, profitable |-> Agents]})
    /\ NothingOpened
    /\ call \in HelperCalls
    /\ pools = EmptyMap
    /\ strategy = [a \in Agents |-> DefaultStrategy]
    /\ pc = "call"

\* The call returns value; nothing else changes.
Returns(value) ==
    /\ returned' = value
    /\ pc' = "returned"
    /\ UNCHANGED <<simVars, constVars, agentVars, localVars, histVars, pools, id_seq, queue, apc,
                   error, margin_search>>

CallCalculateRanks ==
    /\ pc = "call" /\ call.method = "calculate_ranks"
    /\ Returns(calculate_ranks(call.entries))

\* The list comprehension of the tests: the reward of every pool of the call.
CallCalculatePoolReward ==
    /\ pc = "call" /\ call.method = "calculate_pool_reward"
    /\ Returns([i \in DOMAIN call.points |->
                   calculate_pool_reward(call.points[i].stake, call.points[i].pledge,
                                         call.alpha, call.beta)])

NextHelpers == CallCalculateRanks \/ CallCalculatePoolReward

SpecHelpers == InitHelpers /\ [][NextHelpers]_vars

\* calculate_ranks has returned.
Ranked == pc = "returned" /\ call.method = "calculate_ranks"

\* C22: the ranks calculate_ranks returns are a bijection from the ids onto 1..N; an id
\* with a higher primary score has a smaller rank, and of two ids with the same primary
\* score the one with the higher secondary score has the smaller rank; the two cases of
\* the tests get the ranks the tests expect.
C22_RanksOrderByScore ==
    Ranked =>
        LET e == call.entries
        IN  /\ DOMAIN returned = {e[i].id : i \in DOMAIN e}
            /\ {returned[id] : id \in DOMAIN returned} = 1..Len(e)
            /\ \A i, j \in DOMAIN e :
                  /\ e[i].primary > e[j].primary => returned[e[i].id] < returned[e[j].id]
                  /\ (e[i].primary = e[j].primary /\ e[i].secondary > e[j].secondary)
                        => returned[e[i].id] < returned[e[j].id]
            /\ e = RanksCase => returned = RanksCaseExpected
            /\ e = TiedRanksCase => returned = TiedRanksCaseExpected

\* The ranks of the test with ties have been computed.
C22_Witness == Ranked /\ call.entries = TiedRanksCase

\* calculate_pool_reward has returned for every pool of the call.
Rewarded == pc = "returned" /\ call.method = "calculate_pool_reward"

\* C23: of two pools with the same pledge <= beta, the one with the larger stake has
\* at least the reward of the other when both stakes are at most beta, and the same
\* reward when both stakes are at least beta; of two pools with stake beta, the one
\* with the larger pledge (both in (0, beta]) has the strictly larger reward.
C23_RewardMonotone ==
    Rewarded =>
        \A i, j \in DOMAIN call.points :
            LET p == call.points[i]
                q == call.points[j]
            IN  /\ (p.pledge = q.pledge /\ p.pledge <= call.beta /\ p.stake <= q.stake)
                      => /\ q.stake <= call.beta => returned[i] <= returned[j]
                         /\ p.stake >= call.beta => returned[i] = returned[j]
                /\ (p.stake = call.beta /\ q.stake = call.beta
                      /\ 0 < p.pledge /\ p.pledge < q.pledge /\ q.pledge <= call.beta)
                      => returned[i] < returned[j]

\* The rewards of the test with stakes below, at and above beta have been computed,
\* and the first is smaller than the second.
C23_Witness == Rewarded /\ call = VariableStakeCase /\ returned[1] < returned[2]

\* C25: under simultaneous activation no commit fails on a pool id that is missing from
\* the registry or from a staged strategy's allocations (KeyError at lines 491, 519 and
\* 523).
C25_CommitFindsEveryPool ==
    args.agent_activation_order = "Simultaneous" => error # "KeyError"

\* The agent at the head of the pass has computed its delegation candidate.
DelegationFound ==
    /\ pc = "step" /\ apc \in {"operator_moves", "moves"}
    /\ "delegator" \in DOMAIN possible_moves

\* Allocation map `allocations` of agent a is a legal greedy move for `stake_to_delegate`.
WithinRoom(a, allocations, stake_to_delegate) ==
    /\ \A p \in DOMAIN allocations :
          /\ p \in DOMAIN pools
          /\ ~pools[p].is_private
          /\ pools[p].owner # a
          /\ allocations[p] > 0
          /\ allocations[p] <= beta - stake_without(a, p)
    /\ SumOver(DOMAIN allocations, allocations) <= stake_to_delegate

\* C26: the delegation candidate of update_strategy and the allocations of every
\* operator candidate go to public pools of other owners only, with a positive amount
\* of at most beta minus the pool's stake without the agent's own delegation, and in
\* total at most the stake to delegate (the agent's stake, respectively what the
\* pledges leave of it).
C26_GreedyMoveWithinRoom ==
    /\ DelegationFound =>
          WithinRoom(Decider, possible_moves["delegator"].strategy.stake_allocations,
                     args.stake[Decider])
    /\ (pc = "step" /\ operator_strategy # NoStrategy) =>
          WithinRoom(Decider, operator_strategy.stake_allocations,
                     args.stake[Decider]
                        - num_pools(operator_strategy) * calculate_pledges(Decider, num_pools(operator_strategy)))

\* A delegation candidate that fills one pool to saturation and puts the rest of the
\* stake into a second pool.
C26_Witness ==
    /\ DelegationFound /\ error = "none"
    /\ LET allocations == possible_moves["delegator"].strategy.stake_allocations
       IN  /\ Cardinality(DOMAIN allocations) = 2
           /\ \E p \in DOMAIN allocations : allocations[p] = beta - stake_without(Decider, p)

\* ------------------------------------------------ single calls of the move finders
\* The candidate moves depend on desirabilities computed by the pools, which the
\* simulation specifications replace by a free order.  Here the registry, the caller
\* and the desirability of every pool are drawn, and one move finder is called.
MoveIds == 1..(MaxCallId + 1)

\* The callers and pool owners are Agents; one more agent delegates, so that pools of
\* one owner can differ in stake in the eyes of a caller.
MoveAgents == 1..(NumAgents + 1)

Desirabilities == 0..1

\* A pool to which each of `delegators` has delegated 15.  Every agent has a stake of
\* 60, which each pool count up to 6 divides.
MovePool(owner, pledge, is_private, delegators) ==
    [owner |-> owner, pledge |-> pledge, stake |-> pledge + 15 * Cardinality(delegators),
     is_private |-> is_private, delegators |-> [d \in delegators |-> 15]]

\* Pools of pledge 15, 30 or 45 with beta = 45: public ones below, at or above
\* saturation, and private ones, which have no delegators.
MovePools ==
    UNION {{MovePool(o, pledge, FALSE, D) : pledge \in {15, 30}, D \in SUBSET (MoveAgents \ {o})} : o \in Agents}
        \cup {MovePool(o, 45, TRUE, {}) : o \in Agents}

\* What agent a has committed in the registry: its pledges and its delegations.
Committed(a, registry) ==
    SumOver(DOMAIN registry,
            [p \in DOMAIN registry |->
                (IF registry[p].owner = a THEN registry[p].pledge ELSE 0)
                    + (IF a \in DOMAIN registry[p].delegators THEN 15 ELSE 0)])

\* The pools of one owner share their pledge, and nobody commits more than its stake.
MoveRegistries ==
    {r \in UNION {[ids -> MovePools] : ids \in SUBSET MoveIds} :
        /\ \A p, q \in DOMAIN r : r[p].owner = r[q].owner => r[p].pledge = r[q].pledge
        /\ \A a \in MoveAgents : Committed(a, r) <= 60}

\* The strategy of agent a: it owns its pools of the registry and has the
\* delegations the pools know of.
MoveStrategy(a, registry) ==
    LET owned == {p \in DOMAIN registry : registry[p].owner = a}
        delegating == {p \in DOMAIN registry : a \in DOMAIN registry[p].delegators}
    IN  [is_pool_operator |-> owned # {},
         owned_pools |-> [p \in owned |-> [pledge |-> registry[p].pledge,
                                           is_private |-> registry[p].is_private]],
         stake_allocations |-> [p \in delegating |-> 15]]

DelegationCalls ==
    [method : {"find_delegation_move_desirability"}, agent : Agents,
     stake_to_delegate : {20, 60}, desirability : [MoveIds -> Desirabilities]]

OperatorCalls ==
    [method : {"find_operator_moves"}, agent : Agents, desirability : [MoveIds -> Desirabilities]]

\* Margins are counted in 1024ths, which five halvings of a quarter divide.
One == 1024

Margins == {0, 256, 512, 768, 1024}

\* The pool handed to the margin search: a public pool of the caller.
SearchedPool(id, owner, margin) ==
    [id |-> id, owner |-> owner, pledge |-> 15, stake |-> 15, is_private |-> FALSE,
     margin |-> margin]

\* Line 364 passes an existing pool with its own margin, line 379 a new pool with the
\* default initial margin of a quarter.
MarginCalls ==
    {[method |-> "calculate_margin_binary_search", agent |-> a,
      pool |-> SearchedPool(id, a, margin), initial_margin |-> initial_margin] :
        a \in Agents, id \in MoveIds,
        <<margin, initial_margin>> \in {<<m, m>> : m \in Margins} \cup {<<0, 256>>}}

MoveCalls == DelegationCalls \cup OperatorCalls \cup MarginCalls

MoveArgs ==
    ArgsOf({<<4>>}, {<<1>>}, {<<TRUE>>, <<FALSE>>}, {<<1>>}, {1}, {0}, {0}, {"Sequential"}, {[a \in MoveAgents |-> 60]}, {FALSE}, {1})

\* Only an operator can be in its cooldown, and only find_operator_moves reads the
\* cooldown and the pool_splitting switch.
InitMoves ==
    /\ Constructed(MoveArgs, {[min_utility |-> 0, max_utility |-> 1, profitable |-> Agents]})
    /\ call \in MoveCalls
    /\ pools \in MoveRegistries
    /\ strategy = [a \in MoveAgents |-> MoveStrategy(a, pools)]
    /\ id_seq = MaxCallId + 1
    /\ \E left \in 0..min_steps_to_keep_pool :
          /\ left > 0 => strategy[call.agent].is_pool_operator
          /\ remaining_min_steps_to_keep_pool = [a \in Agents |-> IF a = call.agent THEN left ELSE 0]
    /\ call.method # "find_operator_moves" =>
          pool_splitting /\ remaining_min_steps_to_keep_pool[call.agent] = 0
    /\ call.method = "calculate_margin_binary_search" => Cardinality(DOMAIN pools) <= 1
    /\ pc = "call"

\* Line 427's sort key of pool p for agent a: (desirability, stake), the stake being
\* the one of the copy that has lost the agent's own delegation.
precedes(a, desirability, p, q) ==
    \/ desirability[p] > desirability[q]
    \/ desirability[p] = desirability[q] /\ stake_without(a, p) >= stake_without(a, q)

\* Variant of sorted_by_desirability that sorts in ascending order.
sorted_ascending(a, desirability) ==
    {order \in Orders(delegation_targets(a)) :
        \A i, j \in DOMAIN order : i < j => precedes(a, desirability, order[j], order[i])}

\* Lines 427-428: sorted(..., key=itemgetter(1), reverse=True).  Pools with equal keys
\* keep the order of the registry dict, which the model leaves open.
sorted_by_desirability(a, desirability) ==
    {order \in Orders(delegation_targets(a)) :
        \A i, j \in DOMAIN order : i < j => precedes(a, desirability, order[i], order[j])}

\* find_delegation_move_desirability(call.stake_to_delegate) of agent call.agent.
CallFindDelegationMove ==
    /\ pc = "call" /\ call.method = "find_delegation_move_desirability"
    /\ \E order \in sorted_by_desirability(call.agent, call.desirability) :
          /\ desirability_order' = order
          /\ returned' = find_delegation_move_desirability(call.agent, call.stake_to_delegate, order)
    /\ pc' = "returned"
    /\ UNCHANGED <<simVars, constVars, agentVars, histVars, pools, id_seq, queue, apc, error,
                   current_utility, possible_moves, max_utility_option, options_left,
                   max_operator, operator_strategy, id_seq_at_entry, margin_search>>

\* Line 328: the desirabilities of the pools `ids`, as a dict in the order of
\* owned_pools.  New pools get ids above every id in use, so that order is ascending.
RECURSIVE desirabilities_of(_, _)
desirabilities_of(ids, desirability) ==
    IF ids = {} THEN <<>>
    ELSE LET last == CHOOSE id \in ids : \A other \in ids : other <= id
         IN  Append(desirabilities_of(ids \ {last}, desirability),
                    RankEntry(last, desirability[last], 0))

\* Variant of worst_ranked that picks the pool of the best rank.
best_ranked(ranks) == CHOOSE id \in DOMAIN ranks : \A other \in DOMAIN ranks : ranks[id] <= ranks[other]

\* Line 331: max(ranks, key=lambda key: ranks[key]).
worst_ranked(ranks) == CHOOSE id \in DOMAIN ranks : \A other \in DOMAIN ranks : ranks[other] <= ranks[id]

\* Lines 326-331: retiring_pools_num times the pool of the worst rank is popped.
RECURSIVE retire_pools(_, _, _)
retire_pools(ids, desirability, retiring_pools_num) ==
    IF retiring_pools_num <= 0 THEN ids
    ELSE retire_pools(ids \ {worst_ranked(calculate_ranks(desirabilities_of(ids, desirability)))},
                      desirability, retiring_pools_num - 1)

\* determine_current_pools(n) for known desirabilities; one of determine_current_pools(a, n).
current_pools_by_rank(a, n, desirability) ==
    retire_pools(owned_ids(strategy[a]), desirability, num_pools(strategy[a]) - n)

\* For every pool count the pools determine_current_pools keeps.
KeepChoices(a, options) ==
    {keeps \in [options -> SUBSET owned_ids(strategy[a])] :
        \A n \in options : /\ keeps[n] \in determine_current_pools(a, n)
                            /\ keeps[n] = current_pools_by_rank(a, n, call.desirability)}

\* The pool ids get_next_pool_id has handed out before the move with n pools is built;
\* line 350 enumerates a set of small ints, which CPython does in ascending order.
created_before(keeps, n) ==
    SumOver({m \in DOMAIN keeps : m < n}, [m \in DOMAIN keeps |-> m - Cardinality(keeps[m])])

\* Lines 350-353: the dict of the operator strategies, one per pool count.
find_operator_moves(a, keeps, seq, order) ==
    [n \in DOMAIN keeps |->
        find_operator_move(a, n, keeps[n], seq + created_before(keeps, n), order).strategy]

\* find_operator_moves() of agent call.agent.
CallFindOperatorMoves ==
    /\ pc = "call" /\ call.method = "find_operator_moves"
    /\ \E order \in sorted_by_desirability(call.agent, call.desirability),
          keeps \in KeepChoices(call.agent, num_pools_options(call.agent)) :
          /\ desirability_order' = order
          /\ returned' = find_operator_moves(call.agent, keeps, id_seq, order)
          /\ id_seq' = id_seq + created_before(keeps, MaxIdSeq + MaxCallId + 1)
    /\ pc' = "returned"
    /\ UNCHANGED <<simVars, constVars, agentVars, histVars, pools, queue, apc, error,
                   current_utility, possible_moves, max_utility_option, options_left,
                   max_operator, operator_strategy, id_seq_at_entry, margin_search>>

max_depth == 5

\* Variant of with_margin that writes to the pool that was passed in as well.
with_margin_aliased(search, margin) ==
    [search EXCEPT !.new_pool.margin = margin, !.pool.margin = margin,
                   !.all_pools[search.new_pool.id].margin = margin]

\* new_pool.margin = margin: new_pool is the copy, which all_pools holds too.
with_margin(search, margin) ==
    [search EXCEPT !.new_pool.margin = margin, !.all_pools[search.new_pool.id].margin = margin]

\* Lines 218-229: the copies and the initial bounds.
started_search(pool, registry, initial_margin) ==
    with_margin([pool |-> pool, new_pool |-> pool,
                 all_pools |-> [p \in DOMAIN registry \cup {pool.id} |->
                                   IF p = pool.id THEN pool ELSE registry[p]],
                 depth |-> 0, lower_bound |-> 0, mid |-> initial_margin,
                 upper_bound |-> Min(2 * initial_margin - 0, One)],
                initial_margin)

\* Lines 232-242: one pass of the loop.  `improved` is new_utility >= mid_utility,
\* the utilities coming from the reward helpers.
bisected(search, improved) ==
    LET lower_bound == IF improved THEN search.lower_bound ELSE search.mid
        upper_bound == IF improved THEN search.mid ELSE search.upper_bound
    IN  with_margin([with_margin(search, (search.lower_bound + search.mid) \div 2)
                        EXCEPT !.lower_bound = lower_bound, !.upper_bound = upper_bound,
                               !.mid = (lower_bound + upper_bound) \div 2,
                               !.depth = search.depth + 1],
                    (lower_bound + upper_bound) \div 2)

\* calculate_margin_binary_search(call.pool, call.initial_margin) is entered.
CallMarginSearch ==
    /\ pc = "call" /\ call.method = "calculate_margin_binary_search"
    /\ margin_search' = started_search(call.pool, pools, call.initial_margin)
    /\ pc' = "search"
    /\ UNCHANGED <<simVars, constVars, returned, agentVars, localVars, histVars, pools, id_seq,
                   queue, apc, error>>

\* One iteration of the while loop of line 231.
SearchIteration ==
    /\ pc = "search" /\ margin_search.depth < max_depth
    /\ \E improved \in BOOLEAN : margin_search' = bisected(margin_search, improved)
    /\ UNCHANGED <<simVars, constVars, returned, agentVars, localVars, histVars, pools, id_seq,
                   pc, queue, apc, error>>

\* Line 243: the loop is left and mid is returned.
ReturnMargin ==
    /\ pc = "search" /\ ~(margin_search.depth < max_depth)
    /\ returned' = margin_search.mid
    /\ pc' = "returned"
    /\ UNCHANGED <<simVars, constVars, margin_search, agentVars, localVars, histVars, pools,
                   id_seq, queue, apc, error>>

NextMoves ==
    \/ CallFindDelegationMove
    \/ CallFindOperatorMoves
    \/ CallMarginSearch
    \/ SearchIteration
    \/ ReturnMargin

SpecMoves == InitMoves /\ [][NextMoves]_vars

\* The call of find_delegation_move_desirability has returned.
DelegationReturned == pc = "returned" /\ call.method = "find_delegation_move_desirability"

\* The stake agent a sees in pool p once `allocations` are made.
stake_after(a, allocations, p) ==
    stake_without(a, p) + (IF p \in DOMAIN allocations THEN allocations[p] ELSE 0)

\* C27: the greedy delegation move walks the eligible pools (public, of another owner)
\* in descending order of (desirability, stake); a pool gets an allocation only if
\* every pool before it in that order ends at or above saturation, and stake stays
\* unallocated only if every eligible pool ends at or above saturation.
C27_GreedyFillsInOrder ==
    DelegationReturned =>
        LET a == call.agent
            order == desirability_order
            allocations == returned.stake_allocations
        IN  /\ {order[i] : i \in DOMAIN order} = delegation_targets(a)
            /\ Len(order) = Cardinality(delegation_targets(a))
            /\ \A i, j \in DOMAIN order :
                  i < j => /\ precedes(a, call.desirability, order[i], order[j])
                           /\ order[j] \in DOMAIN allocations
                                 => stake_after(a, allocations, order[i]) >= beta
            /\ SumOver(DOMAIN allocations, allocations) < call.stake_to_delegate
                  => \A p \in delegation_targets(a) : stake_after(a, allocations, p) >= beta

\* Two eligible pools of equal desirability: the one with the higher stake is filled
\* to saturation, the other one gets the rest and stays below saturation.
C27_Witness ==
    /\ DelegationReturned
    /\ \E p, q \in DOMAIN returned.stake_allocations :
          /\ call.desirability[p] = call.desirability[q]
          /\ stake_without(call.agent, p) > stake_without(call.agent, q)
          /\ stake_after(call.agent, returned.stake_allocations, p) = beta
          /\ stake_after(call.agent, returned.stake_allocations, q) < beta

\* The call of find_operator_moves has returned.
OperatorMovesReturned == pc = "returned" /\ call.method = "find_operator_moves"

\* The sum of the pledges of strategy s.
sum_pledges(s) ==
    SumOver(DOMAIN s.owned_pools, [p \in DOMAIN s.owned_pools |-> s.owned_pools[p].pledge])

\* C28: the operator strategy of every candidate pool count n has n >= 1 pools, each
\* with the pledge min(stake / n, beta); what the pledges leave of the stake is
\* delegated by the greedy rule if it is positive and nothing is delegated otherwise;
\* the pledges sum to at most the stake and none exceeds beta.
C28_PledgesSplitTheStake ==
    OperatorMovesReturned =>
        \A n \in DOMAIN returned :
            LET s == returned[n]
                stake == args.stake[call.agent]
            IN  /\ n >= 1
                /\ s.is_pool_operator
                /\ num_pools(s) = n
                /\ \A p \in DOMAIN s.owned_pools :
                      /\ n * s.owned_pools[p].pledge = Min(stake, n * beta)
                      /\ s.owned_pools[p].pledge <= beta
                /\ sum_pledges(s) <= stake
                /\ IF stake - sum_pledges(s) > 0
                   THEN s.stake_allocations =
                            find_delegation_move_desirability(
                                call.agent, stake - sum_pledges(s), desirability_order).stake_allocations
                   ELSE s.stake_allocations = EmptyMap

\* One candidate pledges beta and delegates what is left, another one pledges the
\* whole stake in equal parts below beta.
C28_Witness ==
    /\ OperatorMovesReturned
    /\ \E n, m \in DOMAIN returned :
          /\ sum_pledges(returned[n]) = n * beta
          /\ returned[n].stake_allocations # EmptyMap
          /\ m > 1
          /\ sum_pledges(returned[m]) = args.stake[call.agent]
          /\ m * beta > args.stake[call.agent]

\* The pool counts the spec gives for an agent that owns c pools.
ExpectedOptions(c, in_cooldown) ==
    IF ~pool_splitting THEN {1}
    ELSE IF c <= 1 THEN {1, c + 1}
    ELSE IF in_cooldown THEN {c, c + 1}
    ELSE {1, c - 1, c, c + 1}

\* C30: find_operator_moves builds a move for exactly these pool counts: 1 without
\* pool splitting; with it, for an owner of c pools, 1 and c + 1 if c <= 1, c - 1, c,
\* c + 1 and 1 if c > 1 outside the cooldown, c and c + 1 if c > 1 in the cooldown.
C30_CandidatePoolCounts ==
    OperatorMovesReturned =>
        DOMAIN returned =
            ExpectedOptions(num_pools(strategy[call.agent]),
                            remaining_min_steps_to_keep_pool[call.agent] > 0)

\* An owner of three pools in its cooldown tries three and four pools only.
C30_Witness ==
    /\ OperatorMovesReturned
    /\ pool_splitting
    /\ num_pools(strategy[call.agent]) = 3
    /\ remaining_min_steps_to_keep_pool[call.agent] > 0
    /\ DOMAIN returned = {3, 4}

\* The call of calculate_margin_binary_search has returned.
MarginReturned == pc = "returned" /\ call.method = "calculate_margin_binary_search"

\* C29: the margin search returns after exactly five passes of its loop a margin
\* between 0 and min(2 * initial_margin, 1), hence between 0 and 1; the pool it was
\* given is as it was, and no step of the search changes the registry.
C29_MarginSearchBisectsOnCopies ==
    /\ [](MarginReturned =>
            /\ margin_search.depth = 5
            /\ 0 <= returned /\ returned <= Min(2 * call.initial_margin, One)
            /\ returned <= One
            /\ margin_search.pool = call.pool)
    /\ [][(call.method = "calculate_margin_binary_search") => pools' = pools]_vars

\* A search that moved the margin of the copy away from the margin of the pool it
\* was given, which some pool of the registry shares its id with.
C29_Witness ==
    /\ MarginReturned
    /\ call.pool.id \in DOMAIN pools
    /\ returned # call.pool.margin
    /\ margin_search.new_pool.margin = returned
    /\ returned > call.initial_margin

\* The owned pools an operator candidate s of agent a has dropped.
retired_pools(a, s) == owned_ids(strategy[a]) \ owned_ids(s)

\* C31: a candidate with fewer pools n than the c owned ones consists of exactly n of
\* the owned pools, and each of the c - n retired pools has a worse rank than every
\* kept one in the ranking of all owned pools by desirability; a candidate with
\* n >= c pools retires none.
C31_WorstRankedPoolsRetire ==
    OperatorMovesReturned =>
        LET a == call.agent
            c == num_pools(strategy[a])
            ranks == calculate_ranks(desirabilities_of(owned_ids(strategy[a]), call.desirability))
        IN  \A n \in DOMAIN returned :
               IF n < c
               THEN /\ num_pools(returned[n]) = n
                    /\ owned_ids(returned[n]) \subseteq owned_ids(strategy[a])
                    /\ Cardinality(retired_pools(a, returned[n])) = c - n
                    /\ \A r \in retired_pools(a, returned[n]), q \in owned_ids(returned[n]) :
                          ranks[r] > ranks[q]
               ELSE retired_pools(a, returned[n]) = {}

\* An owner of three pools considers two: the retired pool ties in desirability with
\* a kept one and loses by the tie-break.
C31_Witness ==
    /\ OperatorMovesReturned
    /\ num_pools(strategy[call.agent]) = 3
    /\ 2 \in DOMAIN returned
    /\ \E r \in retired_pools(call.agent, returned[2]), q \in owned_ids(returned[2]) :
          call.desirability[r] = call.desirability[q]

\* This step ends the activation (step()) of agent a without an exception.
ActivationEnds(a) ==
    /\ pc = "step" /\ apc = "selected" /\ queue # <<>> /\ Head(queue) = a
    /\ error' = "none"

\* This step is a commit of agent a that registers a pool.
OpensPool(a) ==
    /\ error' = "none"
    /\ \E p \in DOMAIN pools' \ DOMAIN pools : pools'[p].owner = a

\* The cooldown counter of every agent is set to min_steps_to_keep_pool by a commit
\* that opens a pool, loses 1 at the end of an activation while it is positive, and
\* does not change otherwise.
C32_CounterSteps ==
    \A a \in Agents :
        LET started == IF OpensPool(a) THEN min_steps_to_keep_pool
                       ELSE remaining_min_steps_to_keep_pool[a]
        IN  remaining_min_steps_to_keep_pool'[a] =
                IF ActivationEnds(a) /\ started > 0 THEN started - 1 ELSE started

\* No pool leaves the registry in one of the min_steps_to_keep_pool rounds that follow
\* the round it was opened in.
C32_NoEarlyClose ==
    \A p \in (DOMAIN pools \ DOMAIN pools') \cap DOMAIN keep_rounds :
        keep_rounds[p].opened_now \/ keep_rounds[p].rounds = 0

\* C32: the cooldown counter is set to min_steps_to_keep_pool when a commit opens a
\* pool, decreases by exactly 1 per activation while positive and is never negative,
\* and a pool opened in round r is not closed in the rounds r+1 .. r+min_steps_to_keep_pool,
\* whatever the activation order.
C32_CooldownKeepsOpenedPools ==
    /\ [](\A a \in Agents : remaining_min_steps_to_keep_pool[a] >= 0)
    /\ [][C32_CounterSteps /\ C32_NoEarlyClose]_vars

\* The part of C32 about the counter alone.
C32_CounterStepsAlways == [][C32_CounterSteps]_vars

\* The part of C32 about closing, under simultaneous activation, where the counter is
\* set after the activation of the opening round has decremented it.
C32_NoEarlyCloseWhenSimultaneous == [][Simultaneous => C32_NoEarlyClose]_vars

\* The rounds between the convergence declared by this step and the one before it.
RoundsSinceLastDeclared ==
    equilibrium_steps'[Len(equilibrium_steps')] - equilibrium_steps[Len(equilibrium_steps)]

\* C33: an era transition restarts consecutive_idle_steps, so the next convergence is
\* declared at least min_consecutive_idle_steps_for_convergence rounds after the one
\* that began the era, and never in the round right after it.
C33_IdleCounterRestartsWithEra ==
    [][/\ current_era' # current_era => consecutive_idle_steps' = 0
       /\ (Declares /\ equilibrium_steps # <<>>) =>
             /\ RoundsSinceLastDeclared >= Threshold
             /\ RoundsSinceLastDeclared >= 2]_vars

\* The consequence C33 draws, where the threshold is 2 or more.
C33_NoDeclarationsInARow ==
    [][(Declares /\ equilibrium_steps # <<>> /\ Threshold >= 2) => RoundsSinceLastDeclared >= 2]_vars

\* C34: when agents commit within their own activation (Sequential and Random order),
\* every pool to which a committed strategy allocates a positive amount is in the
\* registry, and no utility computation ends with PoolNotFoundError.
C34_AllocationsFindTheirPools ==
    ~Simultaneous =>
        /\ \A a \in Agents : positive_allocations(strategy[a]) \subseteq DOMAIN pools
        /\ error # "PoolNotFoundError"

\* A commit has closed a pool that had a delegator, whose strategy has lost the
\* allocation with it.
C34_Witness ==
    /\ ~Simultaneous /\ error = "none"
    /\ \E p \in DOMAIN last_commit.removed :
          \E d \in DOMAIN last_commit.removed[p].entered.delegators :
              /\ last_commit.removed[p].entered.delegators[d] > 0
              /\ p \notin DOMAIN strategy[d].stake_allocations

\* What agent a's committed strategy pledges to its pools and allocates to others'.
committed_pledges(a) ==
    SumOver(owned_ids(strategy[a]), [p \in owned_ids(strategy[a]) |-> strategy[a].owned_pools[p].pledge])

committed_allocations(a) ==
    SumOver(DOMAIN strategy[a].stake_allocations, strategy[a].stake_allocations)

\* What the registry's pools of owner a hold as pledge.
registered_pledges(a) ==
    LET owned == {p \in DOMAIN pools : pools[p].owner = a}
    IN  SumOver(owned, [p \in owned |-> pools[p].pledge])

\* C35: no agent commits more than its stake: the pledges of its pools plus its
\* committed allocations are at most its stake, in the strategy and in the registry,
\* and every registered pool's pledge is at most its owner's stake.
C35_NoAgentOvercommits ==
    /\ \A a \in Agents :
          /\ committed_pledges(a) + committed_allocations(a) <= args.stake[a]
          /\ registered_pledges(a) + committed_allocations(a) <= args.stake[a]
    /\ \A p \in DOMAIN pools : pools[p].pledge <= args.stake[pools[p].owner]

\* An operator has pledged part of its stake to its own registered pool and delegated
\* all the rest.
C35_Witness ==
    \E a \in Agents :
        /\ registered_pledges(a) > 0
        /\ committed_allocations(a) > 0
        /\ committed_pledges(a) + committed_allocations(a) = args.stake[a]

\* The round that is about to start revises the beliefs: its index is a positive
\* multiple of the revision interval (sim.py:200).
RevisionRound == steps % revision_frequency = 0 /\ steps > 0

\* revise_beliefs runs in exactly the revision rounds, before the agents are activated:
\* outside an era transition k changes only there, and there it becomes RevisedK.
C36_RevisionTiming ==
    /\ (k' # k /\ current_era' = current_era) => (pc = "loop" /\ pc' = "step" /\ RevisionRound)
    /\ (pc = "loop" /\ pc' = "step" /\ RevisionRound) =>
           (k' = RevisedK(pools, beta) /\ perceived_active_stake' = ActiveStakePools(pools))
    /\ (pc = "loop" /\ pc' = "step" /\ ~RevisionRound) => k' = k

\* C36: the expected number of pools k is at least 1 in every state, and the beliefs
\* are revised exactly in the rounds whose index is a positive multiple of the revision
\* interval, before the round's activations.
C36_KStaysPositive == [](k >= 1) /\ [][C36_RevisionTiming]_vars

\* The timing part alone, which holds.
C36_RevisionTimingAlways == [][C36_RevisionTiming]_vars

\* The revision with at least one registered pool keeps k positive.
C36_KPositiveWithPools == [][(k' # k /\ current_era' = current_era /\ pools # EmptyMap) => k' >= 1]_vars

\* Runs in which a pool's room is smaller than what an agent has to delegate (beta 8,
\* stakes 12 and 4), under every activation order.
SaturationArgs ==
    ArgsOf({<<2>>}, {<<0>>}, {<<TRUE>>}, {<<3>>}, {9}, {0}, {0}, ActivationOrders, {[a \in Agents |-> IF a = 1 THEN 12 ELSE 4]}, {FALSE}, {0})

InitSaturation ==
    InitWith(SaturationArgs, {[min_utility |-> 0, max_utility |-> 1, profitable |-> Agents]})

SpecSaturation == InitSaturation /\ [][Next]_vars

\* A step raises agent a's delegation to a public pool that was within beta.
RaisesDelegation(a, p) ==
    /\ p \in DOMAIN pools /\ p \in DOMAIN pools'
    /\ ~pools[p].is_private
    /\ pools[p].stake <= beta
    /\ delegated(pools'[p], a) > delegated(pools[p], a)

\* C37: when agents commit within their own activation (Sequential and Random order)
\* and beta stays as it is, a commit whose allocation delta raises the agent's
\* delegation to a public pool of stake <= beta leaves that pool's stake <= beta.
C37_DelegationKeepsPoolWithinBeta ==
    [][(~Simultaneous /\ beta' = beta) =>
          \A a \in Agents : \A p \in DOMAIN pools :
              RaisesDelegation(a, p) => pools'[p].stake <= beta]_vars

\* A commit has filled a public pool exactly to beta with a delegation smaller than
\* what the agent had left to delegate.
C37_Witness ==
    /\ ~Simultaneous /\ error = "none"
    /\ last_commit.agent \in Agents
    /\ \E p \in DOMAIN pools :
          /\ ~pools[p].is_private
          /\ pools[p].stake = beta
          /\ p \in DOMAIN last_commit.changes
          /\ last_commit.changes[p] > 0
          /\ last_commit.changes[p] < args.stake[last_commit.agent] - committed_pledges(last_commit.agent)

====
